---- MODULE Spec2Model ----
(***************************************************************************)
(* Model of the tsbuild declaration store (FileManager), its persistent    *)
(* cache (IncrementalBuildCache), and the build orchestrator               *)
(* (TypeScriptProject.build) together with the process-level exit paths.   *)
(***************************************************************************)
EXTENDS Integers, Sequences, FiniteSets, TLC

VARIABLES
    cacheEnabled,      \* FileManager.cache !== undefined (compilerOptions.incremental)
    cfg,               \* noEmit / force / clean / declaration / emitDeclarationOnly
    hasEmittedFiles,   \* FileManager.hasEmittedFiles
    declarationFiles,  \* FileManager.declarationFiles : path -> pre-processed code
    cacheFile,         \* the cache file on disk
    cacheLoaded,       \* IncrementalBuildCache.cacheLoaded (the eager load promise)
    loadedFrom,        \* history: the cache file as the eager load read it
    disk,              \* files written to disk: build-info file and build outputs
    pc,                \* position of the run
    emitted,           \* paths the compiler has handed to fileWriter in this emit
    diagnostics,       \* number of diagnostics emit() returned
    dts,               \* the processDeclarations() promise
    transpile,         \* the transpile() promise
    settled,           \* task names in the order in which they settled
    recorded,          \* error kinds passed to handleBuildError, in order
    exitCode,          \* process.exitCode (0 stands for undefined)
    exited,            \* the code the process ended with, NotExited while it runs
    ending,            \* history: how the process ended
    cleaned,           \* the output directory was emptied by this build
    restoreThrew,      \* restore() rejected
    writtenSinceInit,  \* history: fileWriter returned since the last initialize()
    lastOp,            \* history: the store operation that completed last
    lastResult,        \* history: what the last finalize() returned
    lastWrite,         \* history: the last fileWriter call, with the state before it
    phase,             \* position of a run of the declaration pipeline or process manager
    declarationFile,   \* a declaration file as the compiler emitted it
    preProcessed,      \* DeclarationProcessor.preProcess of it
    reProcessed,       \* DeclarationProcessor.preProcess of the pre-processed code
    options,           \* DtsBundleOptions of a bundling call, with the files on disk
    bundlerFiles,      \* DeclarationBundler.declarationFiles
    graph,             \* the ModuleDependencyGraph buildModuleGraph returned
    bundled,           \* the bundle: combineModules' result and the final code
    projectEntryPoints,  \* resolveEntryPoints: all entry points of the project
    dtsEntryPoints,      \* resolveEntryPoints: the selected names, or absent
    resolvedEntryPoints, \* what resolveEntryPoints returned
    hasHandledExit,    \* ProcessManager.hasHandledExit
    closeableClasses,  \* ProcessManager.closeableClasses
    listening,         \* the ProcessManager's listeners are attached to the process
    closeCalls,        \* history: close() calls received, per closeable
    terminated,        \* history: how the process terminated
    timeoutId,         \* debounce: the timer of the debounced method, if one is set
    pendingResolve,    \* debounce: the call whose promise the timer will settle
    calls,             \* history: the calls of the debounced method
    invocations,       \* history: the invocations of the underlying method
    pendingChanges,    \* TypeScriptProject.pendingChanges
    builderProgram,    \* TypeScriptProject.builderProgram
    builds             \* the build() calls of a watching process

vars == << cacheEnabled, cfg, hasEmittedFiles, declarationFiles, cacheFile,
           cacheLoaded, loadedFrom, disk, pc, emitted, diagnostics, dts,
           transpile, settled, recorded, exitCode, exited, ending, cleaned,
           restoreThrew, writtenSinceInit, lastOp, lastResult, lastWrite,
           phase, declarationFile, preProcessed, reProcessed, options,
           bundlerFiles, graph, bundled, projectEntryPoints, dtsEntryPoints,
           resolvedEntryPoints, hasHandledExit, closeableClasses, listening,
           closeCalls, terminated, timeoutId, pendingResolve, calls,
           invocations, pendingChanges, builderProgram, builds >>

storeVars == << hasEmittedFiles, declarationFiles, disk, writtenSinceInit,
                lastOp, lastResult, lastWrite >>

buildVars == << cfg, pc, emitted, diagnostics, dts, transpile, settled,
                recorded, exitCode, exited, ending, cleaned >>

watchVars == << timeoutId, pendingResolve, calls, invocations, pendingChanges,
               builderProgram, builds >>

dtsVars == << phase, declarationFile, preProcessed, reProcessed, options,
             bundlerFiles, graph, bundled, projectEntryPoints, dtsEntryPoints,
             resolvedEntryPoints, hasHandledExit, closeableClasses, listening,
             closeCalls, terminated, watchVars >>

\* the parts of the program a specification does not run
Unused(parts) ==
    /\ IF "processor" \in parts
       THEN declarationFile = << >> /\ preProcessed = << >> /\ reProcessed = << >>
       ELSE TRUE
    /\ IF "bundler" \in parts
       THEN /\ options = << >>
            /\ bundlerFiles = << >>
            /\ graph = << >>
            /\ bundled = << >>
       ELSE TRUE
    /\ IF "entryPoints" \in parts
       THEN /\ projectEntryPoints = << >>
            /\ dtsEntryPoints = << >>
            /\ resolvedEntryPoints = << >>
       ELSE TRUE
    /\ IF "processManager" \in parts
       THEN /\ hasHandledExit = FALSE
            /\ closeableClasses = << >>
            /\ listening = FALSE
            /\ closeCalls = << >>
            /\ terminated = "no"
       ELSE TRUE
    /\ IF "watch" \in parts
       THEN /\ timeoutId = << >>
            /\ pendingResolve = << >>
            /\ calls = << >>
            /\ invocations = << >>
            /\ pendingChanges = << >>
            /\ builderProgram = << >>
            /\ builds = << >>
       ELSE TRUE

----------------------------------------------------------------------------
(* Bounds and program constants *)

MaxEmit == 2

dtsCacheVersion == 2

ExitTypeCheck == 1
ExitBundle == 2
ExitConfiguration == 3
ExitGeneric == 1
ExitUncaught == 99
ExitSigint == 130

NotExited == 0 - 1

BuildInfoPath == "tsconfig.tsbuildinfo"
DeclPaths == {"a.d.ts", "b.d.ts"}
EmitPaths == DeclPaths \cup {BuildInfoPath}
DtsOutPath == "dist/index.d.ts"
JsOutPath == "dist/index.js"
OutPaths == {DtsOutPath, JsOutPath}

RawTexts == {"r1", "r2", "rBad"}

EmptyMap == [p \in {} |-> "p1"]

----------------------------------------------------------------------------
(* DeclarationProcessor.preProcess, as far as the store observes it *)

PreProcessThrows(text) == text = "rBad"

PreProcess(text) ==
    CASE text = "r1" -> "p1"
      [] text = "r2" -> "p2"
      [] OTHER -> text

----------------------------------------------------------------------------
(* Maps *)

Put(map, key, value) ==
    [k \in (DOMAIN map) \cup {key} |-> IF k = key THEN value ELSE map[k]]

Without(map, keys) == [k \in (DOMAIN map) \ keys |-> map[k]]

----------------------------------------------------------------------------
(* The cache file and IncrementalBuildCache *)

NoFile(state) == [state |-> state, version |-> 0, files |-> EmptyMap]

Payload(version, files) == [state |-> "ok", version |-> version, files |-> files]

CachedMaps ==
    { [p \in {"a.d.ts"} |-> "p1"],
      [p \in DeclPaths |-> IF p = "a.d.ts" THEN "p2" ELSE "p1"] }

\* version 0 stands for a payload without a version field
InitialCacheFiles ==
    { NoFile("absent"), NoFile("unreadable"), NoFile("corrupt") }
    \cup { Payload(v, m) : v \in {0, 1, dtsCacheVersion, 3}, m \in CachedMaps }

ReadCompressedThrows(file) == file.state # "ok"

Pending == [status |-> "pending", files |-> EmptyMap]
Undefined == [status |-> "undefined", files |-> EmptyMap]
Rejected == [status |-> "rejected", files |-> EmptyMap]

loadCacheAnyVersion(file) ==
    IF ReadCompressedThrows(file)
    THEN Undefined
    ELSE [status |-> "loaded", files |-> file.files]

loadCache(file) ==
    IF ReadCompressedThrows(file)
    THEN Undefined
    ELSE IF file.version = dtsCacheVersion
         THEN [status |-> "loaded", files |-> file.files]
         ELSE Undefined

restoreRejects(loaded) == loaded.status = "rejected"

restore(target, loaded) ==
    IF loaded.status # "loaded"
    THEN target
    ELSE [p \in (DOMAIN target) \cup (DOMAIN loaded.files) |->
            IF p \in DOMAIN loaded.files THEN loaded.files[p] ELSE target[p]]

\* node's writeFile opens the target with the truncating flag and then writes
\* the buffer: between the two the file holds a prefix of the payload
writeFileOpened(file) == NoFile("partial")

writeCompressed(source) == Payload(dtsCacheVersion, source)

isBuildInfoFile(path) == path = BuildInfoPath

----------------------------------------------------------------------------
(* FileManager *)

WritesThroughWithoutCache(path) == isBuildInfoFile(path)

\* this.cache?.isBuildInfoFile(filePath)
WritesThrough(path) == cacheEnabled /\ isBuildInfoFile(path)

NoWrite ==
    [path |-> "none", text |-> "none", disk |-> EmptyMap, files |-> EmptyMap,
     returned |-> FALSE]

fileWriter(path, text) ==
    /\ lastWrite' = [path |-> path, text |-> text, disk |-> disk,
                     files |-> declarationFiles,
                     returned |-> WritesThrough(path) \/ ~PreProcessThrows(text)]
    /\ IF WritesThrough(path)
       THEN /\ disk' = Put(disk, path, text)
            /\ UNCHANGED declarationFiles
            /\ hasEmittedFiles' = TRUE
            /\ writtenSinceInit' = TRUE
            /\ lastOp' = "fileWriter"
       ELSE IF PreProcessThrows(text)
       THEN UNCHANGED << disk, declarationFiles, hasEmittedFiles, writtenSinceInit, lastOp >>
       ELSE /\ declarationFiles' = Put(declarationFiles, path, PreProcess(text))
            /\ UNCHANGED disk
            /\ hasEmittedFiles' = TRUE
            /\ writtenSinceInit' = TRUE
            /\ lastOp' = "fileWriter"

initialize ==
    /\ hasEmittedFiles' = FALSE
    /\ writtenSinceInit' = FALSE
    /\ lastOp' = "initialize"
    /\ IF cacheEnabled
       THEN /\ restoreThrew' = restoreRejects(cacheLoaded)
            /\ declarationFiles' = restore(declarationFiles, cacheLoaded)
       ELSE /\ declarationFiles' = EmptyMap
            /\ UNCHANGED restoreThrew

\* if (this.cache && this.hasEmittedFiles) { await this.cache.save(...) }
finalizeSaves == cacheEnabled /\ hasEmittedFiles

finalizeResultFlagOnly == hasEmittedFiles

\* return this.cache === undefined || this.hasEmittedFiles
finalizeResult == ~cacheEnabled \/ hasEmittedFiles

close == declarationFiles' = EmptyMap /\ lastOp' = "close"

----------------------------------------------------------------------------
(* The store driven directly: any sequence of its operations *)

InitStore ==
    /\ cacheEnabled \in BOOLEAN
    /\ cfg = [noEmit |-> FALSE, force |-> FALSE, clean |-> FALSE,
              declaration |-> FALSE, emitDeclarationOnly |-> FALSE]
    /\ hasEmittedFiles = FALSE
    /\ declarationFiles = EmptyMap
    /\ cacheFile \in InitialCacheFiles
    /\ cacheLoaded = Pending
    /\ loadedFrom = NoFile("unread")
    /\ disk = EmptyMap
    /\ pc = "store"
    /\ emitted = {}
    /\ diagnostics = 0
    /\ dts = [st |-> "none", err |-> "none"]
    /\ transpile = [st |-> "none", err |-> "none"]
    /\ settled = << >>
    /\ recorded = << >>
    /\ exitCode = 0
    /\ exited = NotExited
    /\ ending = "none"
    /\ cleaned = FALSE
    /\ restoreThrew = FALSE
    /\ writtenSinceInit = FALSE
    /\ lastOp = "none"
    /\ lastResult = "none"
    /\ lastWrite = NoWrite
    /\ phase = "none"
    /\ Unused({"processor", "bundler", "entryPoints", "processManager", "watch"})

\* the eager load started by the constructor completes
LoadCache ==
    /\ cacheEnabled
    /\ cacheLoaded.status = "pending"
    /\ cacheLoaded' = loadCache(cacheFile)
    /\ loadedFrom' = cacheFile
    /\ UNCHANGED << dtsVars, cacheEnabled, cacheFile, restoreThrew, storeVars, buildVars >>

StoreInitialize ==
    /\ pc = "store"
    /\ cacheEnabled => cacheLoaded.status # "pending"
    /\ initialize
    /\ UNCHANGED << dtsVars, cacheEnabled, cacheFile, cacheLoaded, loadedFrom, disk,
                    lastResult, lastWrite, buildVars >>

StoreFileWriter ==
    /\ pc = "store"
    /\ \E path \in EmitPaths, text \in RawTexts :
          /\ path = BuildInfoPath => text = "r1"
          /\ fileWriter(path, text)
    /\ UNCHANGED << dtsVars, cacheEnabled, cacheFile, cacheLoaded, loadedFrom, restoreThrew,
                    lastResult, buildVars >>

StoreFinalize ==
    /\ pc = "store"
    /\ cacheFile' = IF finalizeSaves THEN writeCompressed(declarationFiles) ELSE cacheFile
    /\ lastResult' = IF finalizeResult THEN "true" ELSE "false"
    /\ lastOp' = "finalize"
    /\ UNCHANGED << dtsVars, cacheEnabled, cacheLoaded, loadedFrom, restoreThrew, hasEmittedFiles,
                    declarationFiles, disk, writtenSinceInit, lastWrite, buildVars >>

StoreClose ==
    /\ pc = "store"
    /\ close
    /\ UNCHANGED << dtsVars, cacheEnabled, cacheFile, cacheLoaded, loadedFrom, restoreThrew,
                    hasEmittedFiles, disk, writtenSinceInit, lastResult,
                    lastWrite, buildVars >>

NextStore ==
    \/ LoadCache
    \/ StoreInitialize
    \/ StoreFileWriter
    \/ StoreFinalize
    \/ StoreClose

SpecStore == InitStore /\ [][NextStore]_vars

----------------------------------------------------------------------------
(* Errors (errors.ts) and TypeScriptProject.handleBuildError *)

BuildErrorKinds == {"TypeCheck", "Bundle", "Configuration"}

\* error instanceof BuildError
isBuildError(kind) == kind \in BuildErrorKinds

errorCodeDefault(kind) == ExitGeneric

\* BuildError.code as the subclasses' constructors set it
errorCode(kind) ==
    CASE kind = "TypeCheck" -> ExitTypeCheck
      [] kind = "Bundle" -> ExitBundle
      [] kind = "Configuration" -> ExitConfiguration
      [] OTHER -> ExitGeneric

\* process.exitCode after handleBuildError(error) of a non-watch run
handleBuildError(kind) == IF isBuildError(kind) THEN errorCode(kind) ELSE ExitGeneric

----------------------------------------------------------------------------
(* TypeScriptProject.build *)

NoTask == [st |-> "none", err |-> "none"]
Running == [st |-> "running", err |-> "none"]
Fulfilled == [st |-> "fulfilled", err |-> "none"]
RejectedWith(kind) == [st |-> "rejected", err |-> kind]

DtsErrors == {"Bundle", "UnsupportedSyntax", "Generic"}
TranspileErrors == {"Configuration", "Generic"}

\* the processes array, in push order
processes ==
    (IF dts.st = "none" THEN << >> ELSE << dts >>)
    \o (IF transpile.st = "none" THEN << >> ELSE << transpile >>)

isRejected(result) == result.st = "rejected"

firstRejectedOrAll(procs) ==
    \/ \E i \in 1..Len(procs) : procs[i].st = "rejected"
    \/ \A i \in 1..Len(procs) : procs[i].st # "running"

\* await Promise.allSettled(processes) resumes
allSettled(procs) == \A i \in 1..Len(procs) : procs[i].st # "running"

\* for (const result of ...) if (result.status === 'rejected') handleBuildError(result.reason)
RECURSIVE handleResults(_, _)
handleResults(code, results) ==
    IF results = << >>
    THEN code
    ELSE handleResults(IF isRejected(Head(results))
                       THEN handleBuildError(Head(results).err)
                       ELSE code,
                       Tail(results))

RECURSIVE rejections(_)
rejections(results) ==
    IF results = << >>
    THEN << >>
    ELSE (IF isRejected(Head(results)) THEN << Head(results).err >> ELSE << >>)
         \o rejections(Tail(results))

downstreamUngated(filesWereEmitted) == ~cfg.noEmit \/ cfg.force

\* filesWereEmitted && (!noEmit || force)
downstream(filesWereEmitted) == filesWereEmitted /\ (~cfg.noEmit \/ cfg.force)

typeCheckFailsNever(count) == FALSE

\* if (diagnostics.length > 0) handleTypeErrors(...) throws
typeCheckFails(count) == count > 0

startsTranspileAlways == TRUE

\* if (declaration) / if (!emitDeclarationOnly)
startsDeclarations == cfg.declaration
startsTranspile == ~cfg.emitDeclarationOnly

SuspensionPoints == {"start", "saving", "writing", "gate", "clean", "tasks"}

Configurations ==
    [noEmit : BOOLEAN, force : BOOLEAN, clean : BOOLEAN, declaration : BOOLEAN,
     emitDeclarationOnly : BOOLEAN]

Init ==
    /\ cacheEnabled \in BOOLEAN
    /\ cfg \in Configurations
    /\ hasEmittedFiles = FALSE
    /\ declarationFiles = EmptyMap
    /\ cacheFile \in InitialCacheFiles
    /\ cacheLoaded = Pending
    /\ loadedFrom = NoFile("unread")
    /\ disk = EmptyMap
    /\ pc = "construct"
    /\ emitted = {}
    /\ diagnostics = 0
    /\ dts = NoTask
    /\ transpile = NoTask
    /\ settled = << >>
    /\ recorded = << >>
    /\ exitCode = 0
    /\ exited = NotExited
    /\ ending = "none"
    /\ cleaned = FALSE
    /\ restoreThrew = FALSE
    /\ writtenSinceInit = FALSE
    /\ lastOp = "none"
    /\ lastResult = "none"
    /\ lastWrite = NoWrite
    /\ phase = "none"
    /\ Unused({"processor", "bundler", "entryPoints", "processManager", "watch"})

\* new TypeScriptProject(...): resolveConfiguration either throws a
\* ConfigurationError, which tsbuild.ts turns into the exit code, or succeeds
Construct ==
    /\ pc = "construct"
    /\ \E invalid \in BOOLEAN :
          IF invalid
          THEN /\ pc' = "done"
               /\ recorded' = << "Configuration" >>
               /\ exitCode' = errorCode("Configuration")
          ELSE /\ pc' = "start"
               /\ UNCHANGED << recorded, exitCode >>
    /\ UNCHANGED << dtsVars, cacheEnabled, cfg, cacheFile, cacheLoaded, loadedFrom,
                    restoreThrew, storeVars, emitted, diagnostics, dts,
                    transpile, settled, exited, ending, cleaned >>

\* typeCheck: await this.fileManager.initialize()
BuildInitialize ==
    /\ pc = "start"
    /\ cacheEnabled => cacheLoaded.status # "pending"
    /\ initialize
    /\ IF cacheEnabled /\ restoreRejects(cacheLoaded)
       THEN /\ pc' = "done"
            /\ recorded' = Append(recorded, "Generic")
            /\ exitCode' = handleBuildError("Generic")
       ELSE /\ pc' = "emit"
            /\ UNCHANGED << recorded, exitCode >>
    /\ UNCHANGED << dtsVars, cacheEnabled, cfg, cacheFile, cacheLoaded, loadedFrom, disk,
                    lastResult, lastWrite, emitted, diagnostics, dts,
                    transpile, settled, exited, ending, cleaned >>

\* builderProgram.emit calls the write callback; an exception of the callback
\* leaves emit, typeCheck and reaches build's catch
EmitFile ==
    /\ pc = "emit"
    /\ Cardinality(emitted) < MaxEmit
    /\ \E path \in EmitPaths \ emitted, text \in RawTexts :
          /\ path = BuildInfoPath => (cacheEnabled /\ text = "r1")
          /\ fileWriter(path, text)
          /\ emitted' = emitted \cup {path}
          /\ IF ~WritesThrough(path) /\ PreProcessThrows(text)
             THEN /\ pc' = "done"
                  /\ recorded' = Append(recorded, "UnsupportedSyntax")
                  /\ exitCode' = handleBuildError("UnsupportedSyntax")
             ELSE UNCHANGED << pc, recorded, exitCode >>
    /\ UNCHANGED << dtsVars, cacheEnabled, cfg, cacheFile, cacheLoaded, loadedFrom,
                    restoreThrew, lastResult, diagnostics, dts, transpile,
                    settled, exited, ending, cleaned >>

\* emit returns; diagnostics make handleTypeErrors throw a TypeCheckError,
\* otherwise finalize() runs up to its first suspension
EmitDone ==
    /\ pc = "emit"
    /\ \E count \in 0..1 :
          /\ diagnostics' = count
          /\ IF typeCheckFails(count)
             THEN /\ pc' = "done"
                  /\ recorded' = Append(recorded, "TypeCheck")
                  /\ exitCode' = handleBuildError("TypeCheck")
                  /\ UNCHANGED << lastOp, lastResult >>
             ELSE IF finalizeSaves
             THEN /\ pc' = "saving"
                  /\ UNCHANGED << recorded, exitCode, lastOp, lastResult >>
             ELSE /\ pc' = "gate"
                  /\ lastOp' = "finalize"
                  /\ lastResult' = IF finalizeResult THEN "true" ELSE "false"
                  /\ UNCHANGED << recorded, exitCode >>
    /\ UNCHANGED << dtsVars, cacheEnabled, cfg, cacheFile, cacheLoaded, loadedFrom,
                    restoreThrew, hasEmittedFiles, declarationFiles, disk,
                    writtenSinceInit, lastWrite, emitted, dts, transpile,
                    settled, exited, ending, cleaned >>

\* Files.writeCompressed: writeFile has opened (truncated) the cache file
SaveOpen ==
    /\ pc = "saving"
    /\ cacheFile' = writeFileOpened(cacheFile)
    /\ pc' = "writing"
    /\ UNCHANGED << dtsVars, cacheEnabled, cfg, cacheLoaded, loadedFrom, restoreThrew,
                    storeVars, emitted, diagnostics, dts, transpile, settled,
                    recorded, exitCode, exited, ending, cleaned >>

\* writeFile has written the whole buffer; finalize returns
SaveDone ==
    /\ pc = "writing"
    /\ cacheFile' = writeCompressed(declarationFiles)
    /\ pc' = "gate"
    /\ lastOp' = "finalize"
    /\ lastResult' = IF finalizeResult THEN "true" ELSE "false"
    /\ UNCHANGED << dtsVars, cacheEnabled, cfg, cacheLoaded, loadedFrom, restoreThrew,
                    hasEmittedFiles, declarationFiles, disk, writtenSinceInit,
                    lastWrite, emitted, diagnostics, dts, transpile, settled,
                    recorded, exitCode, exited, ending, cleaned >>

StartTasks ==
    /\ dts' = IF startsDeclarations THEN Running ELSE NoTask
    /\ transpile' = IF startsTranspile THEN Running ELSE NoTask

\* build resumes with filesWereEmitted
AfterTypeCheck ==
    /\ pc = "gate"
    /\ IF downstream(lastResult = "true")
       THEN IF cfg.clean
            THEN pc' = "clean" /\ UNCHANGED << dts, transpile >>
            ELSE pc' = "tasks" /\ StartTasks
       ELSE pc' = "tasks" /\ UNCHANGED << dts, transpile >>
    /\ UNCHANGED << dtsVars, cacheEnabled, cfg, cacheFile, cacheLoaded, loadedFrom,
                    restoreThrew, storeVars, emitted, diagnostics, settled,
                    recorded, exitCode, exited, ending, cleaned >>

\* await this.clean() resumes, then both tasks are started
Clean ==
    /\ pc = "clean"
    /\ disk' = Without(disk, OutPaths)
    /\ cleaned' = TRUE
    /\ StartTasks
    /\ pc' = "tasks"
    /\ UNCHANGED << dtsVars, cacheEnabled, cfg, cacheFile, cacheLoaded, loadedFrom,
                    restoreThrew, hasEmittedFiles, declarationFiles,
                    writtenSinceInit, lastOp, lastResult, lastWrite, emitted,
                    diagnostics, settled, recorded, exitCode, exited, ending >>

DeclarationsSettle ==
    /\ pc = "tasks"
    /\ dts.st = "running"
    /\ \/ dts' = Fulfilled /\ disk' = Put(disk, DtsOutPath, "bundle")
       \/ \E kind \in DtsErrors : dts' = RejectedWith(kind) /\ UNCHANGED disk
    /\ settled' = Append(settled, "dts")
    /\ UNCHANGED << dtsVars, cacheEnabled, cfg, cacheFile, cacheLoaded, loadedFrom,
                    restoreThrew, hasEmittedFiles, declarationFiles,
                    writtenSinceInit, lastOp, lastResult, lastWrite, pc,
                    emitted, diagnostics, transpile, recorded, exitCode,
                    exited, ending, cleaned >>

TranspileSettle ==
    /\ pc = "tasks"
    /\ transpile.st = "running"
    /\ \/ transpile' = Fulfilled /\ disk' = Put(disk, JsOutPath, "js")
       \/ \E kind \in TranspileErrors : transpile' = RejectedWith(kind) /\ UNCHANGED disk
    /\ settled' = Append(settled, "transpile")
    /\ UNCHANGED << dtsVars, cacheEnabled, cfg, cacheFile, cacheLoaded, loadedFrom,
                    restoreThrew, hasEmittedFiles, declarationFiles,
                    writtenSinceInit, lastOp, lastResult, lastWrite, pc,
                    emitted, diagnostics, dts, recorded, exitCode, exited,
                    ending, cleaned >>

\* Promise.allSettled resumes and the results are handled in array order
HandleResults ==
    /\ pc = "tasks"
    /\ allSettled(processes)
    /\ exitCode' = handleResults(exitCode, processes)
    /\ recorded' = recorded \o rejections(processes)
    /\ pc' = "done"
    /\ UNCHANGED << dtsVars, cacheEnabled, cfg, cacheFile, cacheLoaded, loadedFrom,
                    restoreThrew, storeVars, emitted, diagnostics, dts,
                    transpile, settled, exited, ending, cleaned >>

----------------------------------------------------------------------------
(* Process endings (ProcessManager) *)

\* the closeables are closed: TypeScriptProject.close clears the store
Exit(code, how) ==
    /\ exited' = code
    /\ ending' = how
    /\ pc' = "exited"
    /\ close
    /\ UNCHANGED << dtsVars, cacheEnabled, cfg, cacheFile, cacheLoaded, loadedFrom,
                    restoreThrew, hasEmittedFiles, disk, writtenSinceInit,
                    lastResult, lastWrite, emitted, diagnostics, dts,
                    transpile, settled, recorded, exitCode, cleaned >>

\* the event loop drains and the process exits with process.exitCode
ProcessExit == pc = "done" /\ Exit(exitCode, "normal")

\* consoleExit: process.exit(130)
Sigint == pc \in SuspensionPoints /\ Exit(ExitSigint, "sigint")

\* handleUncaughtException: process.exit(99)
UncaughtException == pc \in SuspensionPoints /\ Exit(ExitUncaught, "uncaught")

Next ==
    \/ LoadCache
    \/ Construct
    \/ BuildInitialize
    \/ EmitFile
    \/ EmitDone
    \/ SaveOpen
    \/ SaveDone
    \/ AfterTypeCheck
    \/ Clean
    \/ DeclarationsSettle
    \/ TranspileSettle
    \/ HandleResults
    \/ ProcessExit
    \/ Sigint
    \/ UncaughtException

Spec == Init /\ [][Next]_vars

----------------------------------------------------------------------------
(* The declaration pipeline and the process manager on their own: no build
   and no cache take part, and the store only holds what it is given *)

runVars == << cacheEnabled, cacheFile, cacheLoaded, loadedFrom, restoreThrew,
              storeVars, buildVars, watchVars >>

\* files: what the store holds
NoBuild(files) ==
    /\ cacheEnabled = FALSE
    /\ cfg = [noEmit |-> FALSE, force |-> FALSE, clean |-> FALSE,
              declaration |-> FALSE, emitDeclarationOnly |-> FALSE]
    /\ hasEmittedFiles = FALSE
    /\ declarationFiles = files
    /\ cacheFile = NoFile("absent")
    /\ cacheLoaded = Undefined
    /\ loadedFrom = NoFile("unread")
    /\ disk = EmptyMap
    /\ pc = "none"
    /\ emitted = {}
    /\ diagnostics = 0
    /\ dts = NoTask
    /\ transpile = NoTask
    /\ settled = << >>
    /\ recorded = << >>
    /\ exitCode = 0
    /\ exited = NotExited
    /\ ending = "none"
    /\ cleaned = FALSE
    /\ restoreThrew = FALSE
    /\ writtenSinceInit = FALSE
    /\ lastOp = "none"
    /\ lastResult = "none"
    /\ lastWrite = NoWrite

----------------------------------------------------------------------------
(* Lists and strings *)

Range(list) == { list[i] : i \in DOMAIN list }

RECURSIVE Flatten(_)
Flatten(lists) ==
    IF lists = << >> THEN << >> ELSE Head(lists) \o Flatten(Tail(lists))

\* [...new Set(list)]: the first occurrence of every item, in order
RECURSIVE Unique(_)
Unique(list) ==
    IF list = << >>
    THEN << >>
    ELSE LET front == Unique(SubSeq(list, 1, Len(list) - 1))
             item == list[Len(list)]
         IN  IF item \in Range(front) THEN front ELSE Append(front, item)

\* the items of the list at the given positions, in order
RECURSIVE Pick(_, _, _)
Pick(list, positions, from) ==
    IF from > Len(list)
    THEN << >>
    ELSE (IF from \in positions THEN << list[from] >> ELSE << >>)
         \o Pick(list, positions, from + 1)

startsWith(text, prefix) ==
    Len(text) >= Len(prefix) /\ SubSeq(text, 1, Len(prefix)) = prefix

endsWith(text, suffix) ==
    /\ Len(text) >= Len(suffix)
    /\ SubSeq(text, Len(text) - Len(suffix) + 1, Len(text)) = suffix

\* the first position of the part in the text, 0 when it has none
indexOf(text, part) ==
    LET at == { i \in 1..(Len(text) - Len(part) + 1) :
                   SubSeq(text, i, i + Len(part) - 1) = part }
    IN  IF at = {} THEN 0 ELSE CHOOSE i \in at : \A j \in at : i <= j

\* the characters of identifiers, and the space, in UTF-16 code unit order
CodeUnits == " $0123456789ABCDEFGHIJKLMNOPQRSTUVWXYZ_abcdefghijklmnopqrstuvwxyz"

\* a < b as Array.prototype.sort compares strings
RECURSIVE precedes(_, _)
precedes(a, b) ==
    IF b = "" THEN FALSE
    ELSE IF a = "" THEN TRUE
    ELSE IF Head(a) = Head(b) THEN precedes(Tail(a), Tail(b))
    ELSE indexOf(CodeUnits, Head(a)) < indexOf(CodeUnits, Head(b))

\* names.sort()
RECURSIVE sort(_)
sort(names) ==
    IF names = << >>
    THEN << >>
    ELSE LET first == CHOOSE i \in DOMAIN names :
                          \A j \in DOMAIN names : ~precedes(names[j], names[i])
         IN  << names[first] >> \o sort(Pick(names, (DOMAIN names) \ {first}, 1))

----------------------------------------------------------------------------
(* Declaration files: the statements of a SourceFile. A specifier, a name and
   an element of a named import or export clause are the source text.
   Not represented: the bodies of declarations apart from an inline import()
   type, triple-slash directives, and export clauses inside namespaces. *)

Blank ==
    [k |-> "none", kind |-> "none", name |-> "", names |-> << >>,
     elements |-> << >>, form |-> "none", spec |-> "", typeOnly |-> FALSE,
     export |-> FALSE, default |-> FALSE, declare |-> FALSE, inline |-> ""]

\* an interface, type, enum, function, class or namespace declaration; an
\* anonymous default export has the name ""; inline is the specifier of an
\* import("<specifier>").X in its type
Declaration(kind, name, modifiers, inline) ==
    [Blank EXCEPT !.k = "decl", !.kind = kind, !.name = name,
                  !.export = "export" \in modifiers,
                  !.default = "default" \in modifiers,
                  !.declare = "declare" \in modifiers,
                  !.inline = inline]

\* const a: ..., b: ...;
VariableStatement(names, modifiers) ==
    [Blank EXCEPT !.k = "var", !.kind = "const", !.names = names,
                  !.export = "export" \in modifiers,
                  !.declare = "declare" \in modifiers]

\* import { e1, e2 } from "<specifier>";   import type { ... } from ...
ImportNamed(elements, specifier, typeOnly) ==
    [Blank EXCEPT !.k = "import", !.form = "named", !.elements = elements,
                  !.spec = specifier, !.typeOnly = typeOnly]

\* import * as name from "<specifier>";
ImportNamespace(name, specifier) ==
    [Blank EXCEPT !.k = "import", !.form = "namespace", !.name = name,
                  !.spec = specifier]

\* export { e1, e2 };   export { e1 } from "<specifier>";   export type ...
ExportNamed(elements, specifier, typeOnly) ==
    [Blank EXCEPT !.k = "export", !.form = "named", !.elements = elements,
                  !.spec = specifier, !.typeOnly = typeOnly]

\* export default name;
ExportAssignment(name) == [Blank EXCEPT !.k = "exportDefault", !.name = name]

----------------------------------------------------------------------------
(* DeclarationProcessor.preProcess *)

\* the names a statement declares
declared(statement) ==
    IF statement.k = "decl"
    THEN (IF statement.name = "" THEN << >> ELSE << statement.name >>)
    ELSE IF statement.k = "var" THEN statement.names ELSE << >>

declaredNames(statements) ==
    UNION { Range(declared(statements[i])) : i \in DOMAIN statements }

\* ModifierFlags.ExportDefault on a named declaration
isDefaultExport(statement) ==
    statement.k = "decl" /\ statement.name # ""
        /\ statement.export /\ statement.default

\* while (declaredNames.has(hint)) { hint = `_${hint}` }
RECURSIVE generateUniqueName(_, _)
generateUniqueName(hint, taken) ==
    IF hint \in taken THEN generateUniqueName("_" \o hint, taken) ELSE hint

\* createNamespaceImport: a character that cannot be part of an identifier
\* becomes "_"
RECURSIVE sanitize(_)
sanitize(fileId) ==
    IF fileId = ""
    THEN ""
    ELSE (IF Head(fileId) # " " /\ indexOf(CodeUnits, Head(fileId)) > 0
          THEN Head(fileId) ELSE "_")
         \o sanitize(Tail(fileId))

\* fixModifiers: `export` and `default` are removed, `declare` is added to
\* an enum, class, function, namespace or variable statement that lacks it
fixModifiers(statement) ==
    [statement EXCEPT
        !.export = FALSE, !.default = FALSE,
        !.declare = \/ statement.declare
                    \/ statement.k = "var"
                    \/ statement.kind \in {"enum", "class", "function", "namespace"}]

\* inlineTypePattern /([{,]\s+)type\s+/g on `{ e1, e2 }`: a leading `type`
\* goes when white space follows it, that is when the element goes on or the
\* closing brace follows; the result is the list the parser finds afterwards
\* (an element that lost its only word leaves a trailing comma or an empty
\* clause behind)
stripInlineTypes(elements) ==
    SelectSeq([i \in DOMAIN elements |->
                  IF startsWith(elements[i], "type ")
                  THEN SubSeq(elements[i], 6, Len(elements[i]))
                  ELSE IF elements[i] = "type" /\ i = Len(elements)
                       THEN ""
                       ELSE elements[i]],
              LAMBDA element : element # "")

\* pass 1 over one statement: the statements that stand in its place
RewriteStatement(statement) ==
    CASE statement.k = "import" ->
            IF statement.typeOnly
            THEN << [statement EXCEPT !.typeOnly = FALSE] >>
            ELSE IF statement.form = "named"
                 THEN << [statement EXCEPT
                             !.elements = stripInlineTypes(statement.elements)] >>
                 ELSE << statement >>
      [] statement.k = "export" ->
            IF statement.form = "named" /\ statement.elements = << >>
                  /\ statement.spec = ""
            THEN << >>
            ELSE IF statement.typeOnly
                 THEN << [statement EXCEPT !.typeOnly = FALSE] >>
                 ELSE << statement >>
      [] statement.k = "decl" -> << fixModifiers(statement) >>
      [] statement.k = "var" ->
            [i \in DOMAIN statement.names |->
                [fixModifiers(statement) EXCEPT !.names = << statement.names[i] >>]]
      [] OTHER -> << statement >>

\* the name whose ranges a statement belongs to ("" for none)
rangeName(statement) ==
    IF statement.k = "decl"
    THEN statement.name
    ELSE IF statement.k = "var" THEN statement.names[1] ELSE ""

\* code.move of every range of a name but the last in front of the last one,
\* name by name
RECURSIVE reorder(_, _)
reorder(statements, names) ==
    IF names = << >>
    THEN statements
    ELSE LET at == { i \in DOMAIN statements :
                        rangeName(statements[i]) = Head(names) }
             last == CHOOSE i \in at : \A j \in at : j <= i
             moved == at \ {last}
         IN  reorder(Pick(statements, (1..(last - 1)) \ moved, 1)
                         \o Pick(statements, moved, 1)
                         \o Pick(statements, last..Len(statements), 1),
                     Tail(names))

\* the synthetic names pass 2 gives the inline imports, in order
RECURSIVE namespaceNames(_, _)
namespaceNames(specifiers, taken) ==
    IF specifiers = << >>
    THEN << >>
    ELSE LET name == generateUniqueName(sanitize(Head(specifiers)), taken)
         IN  << name >> \o namespaceNames(Tail(specifiers), taken \cup {name})

preProcessCode(statements) ==
    LET specifiers ==
            Unique(SelectSeq([i \in DOMAIN statements |-> statements[i].inline],
                             LAMBDA specifier : specifier # ""))
        synthetic == namespaceNames(specifiers, declaredNames(statements))
        \* the last declaration that carried `export default` names it
        named == LET at == { i \in DOMAIN statements : isDefaultExport(statements[i]) }
                 IN  IF at = {} THEN ""
                     ELSE statements[CHOOSE i \in at : \A j \in at : j <= i].name
        anonymous == \E i \in DOMAIN statements :
                        statements[i].k = "decl" /\ statements[i].name = ""
        defaultExport ==
            IF named = "" /\ anonymous
            THEN generateUniqueName("export_default",
                                    declaredNames(statements) \cup Range(synthetic))
            ELSE named
        exportedNames ==
            Unique(Flatten([i \in DOMAIN statements |->
                IF statements[i].export /\ ~isDefaultExport(statements[i])
                THEN declared(statements[i])
                ELSE << >>]))
        rewritten == Flatten([i \in DOMAIN statements |->
                                 RewriteStatement(statements[i])])
        ordered == reorder(rewritten,
                           Unique(SelectSeq([i \in DOMAIN rewritten |->
                                                rangeName(rewritten[i])],
                                            LAMBDA name : name # "")))
    IN  \* code.prepend puts every import in front of the ones before it
        [i \in DOMAIN specifiers |->
            ImportNamespace(synthetic[Len(specifiers) + 1 - i],
                            specifiers[Len(specifiers) + 1 - i])]
        \o [i \in DOMAIN ordered |->
               [ordered[i] EXCEPT
                   !.name = IF ordered[i].k = "decl" /\ @ = ""
                            THEN defaultExport ELSE @,
                   !.inline = ""]]
        \o (IF defaultExport = "" THEN << >>
            ELSE << ExportAssignment(defaultExport) >>)
        \o (IF exportedNames = << >> THEN << >>
            ELSE << ExportNamed(exportedNames, "", FALSE) >>)

----------------------------------------------------------------------------
(* Pre-processing a declaration file, and pre-processing the result again *)

MaxStatements == 3

SourceStatements ==
    { ImportNamed(<< "type type" >>, "./x", FALSE),
      ImportNamed(<< "type User", "b" >>, "./x", FALSE),
      ImportNamed(<< "User" >>, "./types", TRUE),
      Declaration("interface", "User", {"export"}, ""),
      Declaration("function", "f", {"export", "declare"}, ""),
      Declaration("function", "", {"export", "default", "declare"}, ""),
      Declaration("class", "Foo", {"export", "default", "declare"}, ""),
      Declaration("class", "export_default", {"declare"}, ""),
      Declaration("type", "T", {"export"}, "./mod"),
      VariableStatement(<< "a", "b" >>, {"export", "declare"}),
      ExportNamed(<< >>, "", FALSE),
      ExportNamed(<< "User" >>, "./types", TRUE) }

\* one default export at most; only interfaces and function overloads may
\* declare a name more than once
WellFormed(statements) ==
    /\ Cardinality({ i \in DOMAIN statements : statements[i].default }) <= 1
    /\ \A i, j \in DOMAIN statements :
          (i # j /\ Range(declared(statements[i]))
                       \cap Range(declared(statements[j])) # {})
            => /\ statements[i].kind = statements[j].kind
               /\ statements[i].kind \in {"interface", "function"}

InitPre ==
    /\ phase = "source"
    /\ declarationFile \in
          { file \in UNION { [1..n -> SourceStatements] : n \in 0..MaxStatements } :
               WellFormed(file) }
    /\ preProcessed = << >>
    /\ reProcessed = << >>
    /\ Unused({"bundler", "entryPoints", "processManager", "watch"})
    /\ NoBuild(EmptyMap)

\* FileManager.fileWriter: DeclarationProcessor.preProcess(createSourceFile(...))
ProcessFile ==
    /\ phase = "source"
    /\ preProcessed' = preProcessCode(declarationFile)
    /\ phase' = "preProcessed"
    /\ UNCHANGED << declarationFile, reProcessed, options, bundlerFiles,
                    graph, bundled, projectEntryPoints, dtsEntryPoints,
                    resolvedEntryPoints, hasHandledExit, closeableClasses,
                    listening, closeCalls, terminated, runVars >>

\* the pre-processed code is pre-processed once more
ProcessAgain ==
    /\ phase = "preProcessed"
    /\ reProcessed' = preProcessCode(preProcessed)
    /\ phase' = "reProcessed"
    /\ UNCHANGED << declarationFile, preProcessed, options, bundlerFiles,
                    graph, bundled, projectEntryPoints, dtsEntryPoints,
                    resolvedEntryPoints, hasHandledExit, closeableClasses,
                    listening, closeCalls, terminated, runVars >>

NextPre ==
    \/ ProcessFile
    \/ ProcessAgain

SpecPre == InitPre /\ [][NextPre]_vars

----------------------------------------------------------------------------
(* DeclarationBundler. A module is its pre-processed statements; given is
   the DtsBundleOptions of the call together with the declaration files on
   disk. Module resolution is TypeScript's for a project at /p: a relative
   specifier names a declaration file next to the importing file, any other
   specifier a package under /p/node_modules; the ModuleResolutionHost finds
   a file that is in declarationFiles or, with resolve, on disk. *)

nodeModules == "/node_modules/"

matchesPattern(moduleSpecifier, patterns) ==
    \E i \in DOMAIN patterns :
        \/ moduleSpecifier = patterns[i]
        \/ startsWith(moduleSpecifier, patterns[i] \o "/")

\* a variant: no specifier is external
isExternalNever(moduleSpecifier, given) == FALSE

isExternal(moduleSpecifier, given) ==
    matchesPattern(moduleSpecifier, given.external)

\* the resolved path, "" for undefined
resolveModule(importPath, containingFile, files, given) ==
    LET slashes == { i \in 1..Len(containingFile) :
                        SubSeq(containingFile, i, i) = "/" }
        directory ==
            SubSeq(containingFile, 1,
                   (CHOOSE i \in slashes : \A j \in slashes : j <= i) - 1)
        candidate ==
            IF startsWith(importPath, "./")
            THEN directory \o SubSeq(importPath, 2, Len(importPath)) \o ".d.ts"
            ELSE "/p" \o nodeModules \o importPath \o "/index.d.ts"
    IN  IF \/ candidate \in DOMAIN files
           \/ given.resolve /\ candidate \in DOMAIN given.disk
        THEN candidate
        ELSE ""

extractImports(statements) ==
    LET withSpecifier ==
            SelectSeq(statements,
                      LAMBDA statement : /\ statement.k \in {"import", "export"}
                                         /\ statement.spec # "")
    IN  [i \in DOMAIN withSpecifier |-> withSpecifier[i].spec]

\* buildModuleGraph: visit(path), and the loop over the specifiers of a
\* module. build is [visited, files, modules]; modules lists path, imports
\* and bundledSpecifiers in the order modules.set is reached.
RECURSIVE visit(_, _, _)
RECURSIVE visitSpecifiers(_, _, _, _)
visit(path, build, given) ==
    IF path \in build.visited
    THEN build
    ELSE LET entered == [build EXCEPT !.visited = @ \cup {path}]
         IN  IF path \notin DOMAIN entered.files
             THEN entered
             ELSE visitSpecifiers(
                      [path |-> path, imports |-> << >>, bundledSpecifiers |-> << >>],
                      extractImports(entered.files[path]), entered, given)

visitSpecifiers(module, specifiers, build, given) ==
    IF specifiers = << >>
    THEN [build EXCEPT !.modules = Append(@, module)]
    ELSE LET specifier == Head(specifiers)
             resolvedPath == resolveModule(specifier, module.path, build.files, given)
             \* loaded from disk and pre-processed when resolve is enabled
             loaded ==
                 IF /\ resolvedPath # ""
                    /\ resolvedPath \notin DOMAIN build.files
                    /\ given.resolve
                    /\ resolvedPath \in DOMAIN given.disk
                 THEN [build EXCEPT !.files =
                          Put(@, resolvedPath, preProcessCode(given.disk[resolvedPath]))]
                 ELSE build
         IN  IF isExternal(specifier, given)
             THEN visitSpecifiers(module, Tail(specifiers), build, given)
             ELSE IF /\ indexOf(resolvedPath, nodeModules) > 0
                     /\ ~matchesPattern(specifier, given.noExternal)
             THEN visitSpecifiers(module, Tail(specifiers), build, given)
             ELSE IF resolvedPath # "" /\ resolvedPath \in DOMAIN loaded.files
             THEN visitSpecifiers(
                      [module EXCEPT
                          !.imports = Unique(Append(@, resolvedPath)),
                          !.bundledSpecifiers = Append(@, specifier)],
                      Tail(specifiers), visit(resolvedPath, loaded, given), given)
             ELSE visitSpecifiers(module, Tail(specifiers), loaded, given)

\* a variant: a file loaded from disk is recorded as an import of the module
\* that names it, but gets no entry in modules
buildModuleGraphInMemoryOnly(entryPoint, files, given) ==
    LET build == visit(entryPoint,
                       [visited |-> {}, files |-> files, modules |-> << >>], given)
    IN  [build EXCEPT !.modules =
            SelectSeq(@, LAMBDA module : module.path \in DOMAIN files)]

buildModuleGraph(entryPoint, files, given) ==
    visit(entryPoint, [visited |-> {}, files |-> files, modules |-> << >>], given)

\* sortModules: visit(path) over the imports; order is [seen, sorted], seen
\* being the paths visited or being visited
RECURSIVE sortVisit(_, _, _)
sortVisit(paths, order, modules) ==
    IF paths = << >>
    THEN order
    ELSE LET path == Head(paths)
             at == { i \in DOMAIN modules : modules[i].path = path }
             entered == [order EXCEPT !.seen = @ \cup {path}]
         IN  IF path \in order.seen \/ at = {}
             THEN sortVisit(Tail(paths),
                            IF path \in order.seen THEN order ELSE entered,
                            modules)
             ELSE LET module == modules[CHOOSE i \in at : TRUE]
                      after == sortVisit(module.imports, entered, modules)
                  IN  sortVisit(Tail(paths),
                                [after EXCEPT !.sorted = Append(@, module)],
                                modules)

\* a variant: the modules in the reverse order, dependents first
sortModulesDependentsFirst(modules, entryPoint) ==
    LET sorted == sortVisit(<< entryPoint >>, [seen |-> {}, sorted |-> << >>],
                            modules).sorted
    IN  [i \in DOMAIN sorted |-> sorted[Len(sorted) + 1 - i]]

sortModules(modules, entryPoint) ==
    sortVisit(<< entryPoint >>, [seen |-> {}, sorted |-> << >>], modules).sorted

collectIdentifiers(statements) ==
    [types |-> UNION { Range(declared(statements[i])) :
                          i \in { j \in DOMAIN statements :
                                     statements[j].kind \in {"interface", "type"} } },
     values |-> UNION { Range(declared(statements[i])) :
                           i \in { j \in DOMAIN statements :
                                      statements[j].kind \in
                                         {"enum", "function", "class", "const",
                                          "namespace"} } }]

\* a variant: the suffix counts the modules sorted before the module, whether
\* they declare the name or not
renamedByPosition(name, modulePath, sorted, files) ==
    LET position == CHOOSE i \in DOMAIN sorted : sorted[i].path = modulePath
    IN  IF position > 1 THEN name \o "$" \o ToString(position - 1) ELSE name

\* renameMap.get(`${name}:${modulePath}`) ?? name: of the modules that
\* declare the name the first in sorted order keeps it, the others get
\* name$1, name$2, ...
renamed(name, modulePath, sorted, files) ==
    LET sources ==
            SelectSeq([i \in DOMAIN sorted |-> sorted[i].path],
                      LAMBDA path :
                          name \in collectIdentifiers(files[path]).types
                                      \cup collectIdentifiers(files[path]).values)
        index == CHOOSE i \in DOMAIN sources : sources[i] = modulePath
    IN  IF modulePath \in Range(sources) /\ index > 1
        THEN name \o "$" \o ToString(index - 1)
        ELSE name

\* const localName = propertyName?.text ?? name.text, of `local as exported`
localName(element) ==
    IF indexOf(element, " as ") > 0
    THEN SubSeq(element, 1, indexOf(element, " as ") - 1)
    ELSE element

\* a variant: type exports are not filtered by the value exports
withoutValuesKeepsAll(typeExports, valueExports) == typeExports

\* typeExports.filter((t) => !valueExportsSet.has(t))
withoutValues(typeExports, valueExports) ==
    SelectSeq(typeExports, LAMBDA name : name \notin Range(valueExports))

stripImportsExports(module, sorted, files, given) ==
    LET statements == files[module.path]
        identifiers == collectIdentifiers(statements)
        exportsMapper(name) ==
            IF name \in identifiers.types \cup identifiers.values
            THEN renamed(name, module.path, sorted, files)
            ELSE name
        locals ==
            Flatten([i \in DOMAIN statements |->
                IF statements[i].k = "export" /\ statements[i].spec = ""
                THEN [j \in DOMAIN statements[i].elements |->
                         localName(statements[i].elements[j])]
                ELSE << >>])
        valueExports ==
            Unique(SelectSeq(locals, LAMBDA name : name \in identifiers.values
                                                   \/ name \notin identifiers.types))
        typeExports ==
            SelectSeq(locals, LAMBDA name : name \notin identifiers.values
                                            /\ name \in identifiers.types)
        kept == SelectSeq(statements,
                          LAMBDA statement : statement.k \in {"decl", "var"})
        finalValueExports ==
            Unique([i \in DOMAIN valueExports |-> exportsMapper(valueExports[i])])
    IN  [path |-> module.path,
         code |-> [i \in DOMAIN kept |->
                      [kept[i] EXCEPT
                          !.name = IF @ = "" THEN @ ELSE exportsMapper(@),
                          !.names = [j \in DOMAIN @ |-> exportsMapper(@[j])]]],
         externalImports |->
             SelectSeq(statements,
                       LAMBDA statement :
                           /\ statement.k = "import"
                           /\ \/ isExternal(statement.spec, given)
                              \/ statement.spec \notin Range(module.bundledSpecifiers)),
         typeExports |->
             Unique(withoutValues(
                 [i \in DOMAIN typeExports |-> exportsMapper(typeExports[i])],
                 finalValueExports)),
         valueExports |-> finalValueExports]

\* a variant: the import statements are only deduplicated
mergeImportsDedupeOnly(imports) == Unique(imports)

\* importPattern matches the named imports; the key of a group is
\* `${isType ? 'type:' : ''}${moduleSpecifier}`
mergeImports(imports) ==
    LET key(statement) ==
            (IF statement.typeOnly THEN "type:" ELSE "") \o statement.spec
        mergeable == SelectSeq(imports, LAMBDA statement : statement.form = "named")
        keys == Unique([i \in DOMAIN mergeable |-> key(mergeable[i])])
        group(k) == SelectSeq(mergeable, LAMBDA statement : key(statement) = k)
    IN  [i \in DOMAIN keys |->
            ImportNamed(
                sort(Unique(Flatten([j \in DOMAIN group(keys[i]) |->
                                        group(keys[i])[j].elements]))),
                IF startsWith(keys[i], "type:")
                THEN SubSeq(keys[i], 6, Len(keys[i]))
                ELSE keys[i],
                group(keys[i])[1].typeOnly)]
        \o Unique(SelectSeq(imports, LAMBDA statement : statement.form # "named"))

combineModules(sortedModules, files, given) ==
    LET stripped == [i \in DOMAIN sortedModules |->
                        stripImportsExports(sortedModules[i], sortedModules,
                                            files, given)]
        project == SelectSeq(stripped,
                             LAMBDA module : indexOf(module.path, nodeModules) = 0)
        finalValueExports ==
            Unique(Flatten([i \in DOMAIN project |-> project[i].valueExports]))
    IN  [imports |->
             mergeImports(Flatten([i \in DOMAIN stripped |->
                                      stripped[i].externalImports])),
         codeBlocks |->
             SelectSeq([i \in DOMAIN stripped |->
                           [path |-> stripped[i].path, code |-> stripped[i].code]],
                       LAMBDA block : block.code # << >>),
         valueExports |-> sort(finalValueExports),
         typeExports |->
             sort(Unique(withoutValues(
                 Flatten([i \in DOMAIN project |-> project[i].typeExports]),
                 finalValueExports)))]

\* DeclarationProcessor.postProcess on the combined code: a relative
\* specifier that ends with .d.ts has its last five characters replaced
postProcess(combined) ==
    [combined EXCEPT !.imports =
        [i \in DOMAIN @ |->
            IF startsWith(@[i].spec, ".") /\ endsWith(@[i].spec, ".d.ts")
            THEN [@[i] EXCEPT !.spec = SubSeq(@, 1, Len(@) - 5) \o ".js"]
            ELSE @[i]]]

----------------------------------------------------------------------------
(* processDeclarations for one entry point of a project at /p: the store
   holds the declaration files the compiler emitted for index, types and
   utils, pre-processed by its fileWriter, and the package lib under node_modules, given in memory or
   found on disk. No file exists for "ext", "pkg" and "./other". The last
   variants of types and utils import each other, and utils the entry. *)

SourceFiles ==
    [index |->
    { << ImportNamed(<< "User" >>, "./types", FALSE),
         ExportNamed(<< "User" >>, "", FALSE) >>,
      << ImportNamed(<< "User" >>, "./types", FALSE),
         ImportNamed(<< "User as LibUser" >>, "lib", FALSE),
         ExportNamed(<< "User", "LibUser" >>, "", FALSE) >>,
      << ImportNamed(<< "User" >>, "./types", FALSE),
         ImportNamed(<< "Config" >>, "./utils", FALSE),
         ImportNamed(<< "User as LibUser" >>, "lib", FALSE),
         ExportNamed(<< "User", "Config", "LibUser" >>, "", FALSE) >>,
      << ImportNamed(<< "User" >>, "./types", TRUE),
         ExportNamed(<< "Config" >>, "./utils", FALSE),
         ImportNamed(<< "b", "a" >>, "ext", FALSE),
         ImportNamed(<< "User" >>, "lib", TRUE),
         Declaration("function", "main", {"export", "declare"}, "") >> },
     types |->
    { << Declaration("interface", "User", {"export"}, "") >>,
      << Declaration("interface", "User", {"export"}, ""),
         Declaration("interface", "Config", {"export"}, "") >>,
      << ImportNamed(<< "c", "a" >>, "ext", FALSE),
         ImportNamed(<< "z" >>, "./other.d.ts", FALSE),
         Declaration("interface", "User", {"export"}, ""),
         VariableStatement(<< "User" >>, {"export", "declare"}) >>,
      << ImportNamed(<< "Config" >>, "./utils", TRUE),
         Declaration("interface", "User", {"export"}, "") >> },
     utils |->
    { << Declaration("interface", "Config", {"export"}, "") >>,
      << VariableStatement(<< "Config" >>, {"export", "declare"}) >>,
      << ImportNamed(<< "a", "type d" >>, "ext", FALSE),
         ImportNamespace("ns", "ext"),
         Declaration("interface", "User$1", {"export"}, ""),
         Declaration("class", "Config", {"export", "declare"}, "") >>,
      << ImportNamed(<< "x" >>, "./other.d.tsx", FALSE),
         ImportNamed(<< "y" >>, "pkg/types.d.ts", FALSE),
         ImportNamed(<< "w" >>, "./other.js", FALSE),
         Declaration("class", "User", {"export", "declare"}, "") >>,
      << ImportNamed(<< "User" >>, "./types", TRUE),
         ImportNamed(<< "main" >>, "./index", TRUE),
         Declaration("interface", "Config", {"export"}, "") >> },
     lib |->
    { << Declaration("interface", "User", {"export"}, "") >>,
      << ImportNamed(<< "Helper" >>, "./helper", FALSE),
         Declaration("interface", "User", {"export"}, ""),
         Declaration("interface", "User$1", {"export"}, "") >> },
     helper |-> << Declaration("interface", "Helper", {"export"}, "") >>]

\* a variant: the bundler keeps the map it is given
DeclarationBundlerShared(given) == [files |-> given, shared |-> TRUE]

\* new DeclarationBundler(options): the entries of options.declarationFiles
\* are set on a map of its own; shared says whether a set on the bundler's
\* map is a set on the map it was given
DeclarationBundler(given) ==
    [files |-> [path \in DOMAIN given |-> given[path]], shared |-> FALSE]

InitBundle ==
    /\ phase = "declarations"
    /\ \E index \in SourceFiles.index, types \in SourceFiles.types,
          utils \in SourceFiles.utils, lib \in SourceFiles.lib,
          libIn \in {"memory", "disk", "nowhere"} :
          LET package == [path \in {"/p/node_modules/lib/index.d.ts",
                                    "/p/node_modules/lib/helper.d.ts"} |->
                             IF path = "/p/node_modules/lib/index.d.ts"
                             THEN lib ELSE SourceFiles.helper]
              project == [path \in {"/p/src/index.d.ts", "/p/src/types.d.ts",
                                    "/p/src/utils.d.ts"} |->
                             preProcessCode(
                                 CASE path = "/p/src/index.d.ts" -> index
                                   [] path = "/p/src/types.d.ts" -> types
                                   [] OTHER -> utils)]
          IN  /\ NoBuild(IF libIn = "memory"
                          THEN [path \in DOMAIN project \cup DOMAIN package |->
                                   IF path \in DOMAIN project
                                   THEN project[path]
                                   ELSE preProcessCode(package[path])]
                          ELSE project)
              /\ bundlerFiles = DeclarationBundler(declarationFiles).files
              /\ \E external \in { << >>, << "lib" >>, << "./utils" >> },
                    noExternal \in { << >>, << "lib" >> },
                    resolve \in BOOLEAN,
                    entryPoint \in {"/p/src/index.d.ts", "/p/src/cli.ts"} :
                    options = [entryPoint |-> entryPoint,
                               external |-> external,
                               noExternal |-> noExternal,
                               resolve |-> resolve,
                               disk |-> IF libIn = "disk" THEN package ELSE << >>]
    /\ graph = << >>
    /\ bundled = << >>
    /\ Unused({"processor", "entryPoints", "processManager", "watch"})

\* resolveEntryPoint: a path that does not end with .d.ts goes through
\* sourceToDeclarationPath, which returns it unchanged when no declaration
\* file corresponds to it
resolveEntryPoint(entryPoint, files) ==
    IF entryPoint \in DOMAIN files THEN entryPoint ELSE ""

\* DeclarationBundler.bundle
Bundle ==
    /\ phase = "declarations"
    /\ resolveEntryPoint(options.entryPoint, bundlerFiles) # ""
    /\ LET build == buildModuleGraph(options.entryPoint, bundlerFiles, options)
       IN  /\ bundlerFiles' = build.files
           /\ graph' = [modules |-> build.modules,
                        sorted |-> sortModules(build.modules, options.entryPoint)]
    /\ LET combined == combineModules(graph'.sorted, bundlerFiles', options)
       IN  bundled' = [combined |-> combined, code |-> postProcess(combined)]
    /\ declarationFiles' = IF DeclarationBundler(declarationFiles).shared
                          THEN bundlerFiles'
                          ELSE declarationFiles
    /\ phase' = "bundled"
    /\ UNCHANGED << options, declarationFile, preProcessed, reProcessed,
                    projectEntryPoints, dtsEntryPoints, resolvedEntryPoints,
                    hasHandledExit, closeableClasses, listening, closeCalls,
                    terminated, cacheEnabled, cacheFile, cacheLoaded,
                    loadedFrom, restoreThrew, hasEmittedFiles, disk,
                    writtenSinceInit, lastOp, lastResult, lastWrite,
                    buildVars, watchVars >>

\* processDeclarations without bundling: FileManager.writeFiles writes the
\* code of every declaration of the store to its path
WriteFiles ==
    /\ phase = "declarations"
    /\ disk' = [path \in DOMAIN disk \cup DOMAIN declarationFiles |->
                   IF path \in DOMAIN declarationFiles
                   THEN declarationFiles[path]
                   ELSE disk[path]]
    /\ phase' = "written"
    /\ UNCHANGED << options, bundlerFiles, graph, bundled, declarationFile,
                    preProcessed, reProcessed, projectEntryPoints,
                    dtsEntryPoints, resolvedEntryPoints, hasHandledExit,
                    closeableClasses, listening, closeCalls, terminated,
                    cacheEnabled, cacheFile, cacheLoaded, loadedFrom,
                    restoreThrew, hasEmittedFiles, declarationFiles,
                    writtenSinceInit, lastOp, lastResult, lastWrite,
                    buildVars, watchVars >>

\* DeclarationBundler.bundle: resolveEntryPoint throws a BundleError
BundleThrows ==
    /\ phase = "declarations"
    /\ resolveEntryPoint(options.entryPoint, bundlerFiles) = ""
    /\ phase' = "BundleError"
    /\ UNCHANGED << options, bundlerFiles, graph, bundled, declarationFile,
                    preProcessed, reProcessed, projectEntryPoints,
                    dtsEntryPoints, resolvedEntryPoints, hasHandledExit,
                    closeableClasses, listening, closeCalls, terminated,
                    runVars >>

NextBundle ==
    \/ Bundle
    \/ BundleThrows
    \/ WriteFiles

SpecBundle == InitBundle /\ [][NextBundle]_vars

----------------------------------------------------------------------------
(* FileManager.resolveEntryPoints. A Record<string, AbsolutePath> is a
   function from names to paths; dtsEntryPoints is the optional argument:
   given says whether it was passed. *)

MaxSelected == 2

defaultEntryPoint == "index"

\* a variant: without a selection all entry points are bundled
resolveEntryPointsAll(project, selected) ==
    IF ~selected.given
    THEN project
    ELSE [name \in { n \in DOMAIN project : n \in Range(selected.names) }
             |-> project[name]]

resolveEntryPoints(project, selected) ==
    IF ~selected.given
    THEN IF defaultEntryPoint \in DOMAIN project
         THEN [name \in {defaultEntryPoint} |-> project[defaultEntryPoint]]
         ELSE project
    ELSE [name \in { n \in DOMAIN project : n \in Range(selected.names) }
             |-> project[name]]

InitEntry ==
    /\ phase = "entryPoints"
    /\ projectEntryPoints \in
          UNION { [names -> {"/p/src/a.ts", "/p/src/b.ts"}] :
                     names \in SUBSET {"index", "cli", "lib"} }
    /\ dtsEntryPoints \in
          {[given |-> FALSE, names |-> << >>]}
          \cup { [given |-> TRUE, names |-> names] :
                    names \in UNION { [1..n -> {"index", "cli", "lib", "missing"}] :
                                         n \in 0..MaxSelected } }
    /\ resolvedEntryPoints = << >>
    /\ Unused({"processor", "bundler", "processManager", "watch"})
    /\ NoBuild(EmptyMap)

ResolveEntryPoints ==
    /\ phase = "entryPoints"
    /\ resolvedEntryPoints' = resolveEntryPoints(projectEntryPoints, dtsEntryPoints)
    /\ phase' = "resolved"
    /\ UNCHANGED << projectEntryPoints, dtsEntryPoints, declarationFile,
                    preProcessed, reProcessed, options, bundlerFiles, graph,
                    bundled, hasHandledExit, closeableClasses, listening,
                    closeCalls, terminated, runVars >>

SpecEntry == InitEntry /\ [][ResolveEntryPoints]_vars

----------------------------------------------------------------------------
(* ProcessManager. The instances of the @closeOnExit classes register
   themselves once, in their constructor; the handlers run to completion.
   process.exit emits 'exit' to the listeners that are still attached. *)

MaxCloseables == 4

manager ==
    [hasHandledExit |-> hasHandledExit, closeableClasses |-> closeableClasses,
     listening |-> listening, closeCalls |-> closeCalls]

\* a variant: the handlers close nothing
closeNone(m) == m

\* for (const closeable of this.closeableClasses) { closeable.close() }
closeAll(m) ==
    [m EXCEPT !.closeCalls =
        [c \in DOMAIN @ |->
            @[c] + Cardinality({ i \in DOMAIN m.closeableClasses :
                                    m.closeableClasses[i] = c })]]

\* ProcessManager.close
closeManager(m) == [m EXCEPT !.closeableClasses = << >>, !.listening = FALSE]

handleExit(m) ==
    IF m.hasHandledExit THEN m ELSE closeManager(closeAll(m))

\* the 'exit' event, as process.exit and the end of the event loop emit it
emitExit(m) == IF m.listening THEN handleExit(m) ELSE m

\* consoleExit, process.exit(130) included
consoleExit(m) ==
    emitExit(closeManager(closeAll([m EXCEPT !.hasHandledExit = TRUE])))

\* handleUncaughtException: process.exit(99)
handleUncaughtException(m) == emitExit(m)

Terminate(m, how) ==
    /\ hasHandledExit' = m.hasHandledExit
    /\ closeableClasses' = m.closeableClasses
    /\ listening' = m.listening
    /\ closeCalls' = m.closeCalls
    /\ terminated' = how
    /\ UNCHANGED << phase, declarationFile, preProcessed, reProcessed,
                    options, bundlerFiles, graph, bundled, projectEntryPoints,
                    dtsEntryPoints, resolvedEntryPoints, runVars >>

InitExit ==
    /\ phase = "running"
    /\ hasHandledExit = FALSE
    /\ closeableClasses = << >>
    /\ listening = TRUE
    /\ closeCalls = << >>
    /\ terminated = "no"
    /\ Unused({"processor", "bundler", "entryPoints", "watch"})
    /\ NoBuild(EmptyMap)

\* closeOnExit: processManager.addCloseable(this)
AddCloseable ==
    /\ terminated = "no"
    /\ \E closeable \in (1..MaxCloseables) \ Range(closeableClasses) :
          /\ closeableClasses' = Append(closeableClasses, closeable)
          /\ closeCalls' = Put(closeCalls, closeable, 0)
    /\ UNCHANGED << hasHandledExit, listening, terminated, phase,
                    declarationFile, preProcessed, reProcessed, options,
                    bundlerFiles, graph, bundled, projectEntryPoints,
                    dtsEntryPoints, resolvedEntryPoints, runVars >>

\* the process exits normally
ExitEvent == terminated = "no" /\ Terminate(emitExit(manager), "exit")

SigintEvent ==
    terminated = "no" /\ listening /\ Terminate(consoleExit(manager), "SIGINT")

UncaughtExceptionEvent ==
    /\ terminated = "no"
    /\ listening
    /\ Terminate(handleUncaughtException(manager), "uncaughtException")

NextExit ==
    \/ AddCloseable
    \/ ExitEvent
    \/ SigintEvent
    \/ UncaughtExceptionEvent

SpecExit == InitExit /\ [][NextExit]_vars

----------------------------------------------------------------------------
(* DebounceManager.debounce: one debounced method of one instance. Time
   passes in ticks; a timer that is due runs before anything else happens.
   A call is recorded with its arguments, the ticks since the call before
   it (gap) and since itself (age), both counted up to the wait, and the
   state of the promise it returned. *)

\* the wait of the debounced method, in ticks
Wait == 2
\* the calls of a behaviour
MaxCalls == 4

\* a variant: a call leaves a timer that is set as it is
setTimeoutKeepsTimer(previous, wait) ==
    IF previous = << >> THEN << wait >> ELSE previous

\* clearTimeout(timeoutId) when one is set, then
\* timeoutId = setTimeout(..., wait): the ticks left until the timer is due
setTimeout(previous, wait) == << wait >>

InitDebounce ==
    /\ timeoutId = << >>
    /\ pendingResolve = << >>
    /\ calls = << >>
    /\ invocations = << >>
    /\ pendingChanges = << >>
    /\ builderProgram = << >>
    /\ builds = << >>
    /\ phase = "none"
    /\ Unused({"processor", "bundler", "entryPoints", "processManager"})
    /\ NoBuild(EmptyMap)

\* the debounced function is called: the timer of the call before is
\* cleared and the promise of that call resolves with undefined
Debounced ==
    /\ Len(calls) < MaxCalls
    /\ timeoutId # << 0 >>
    /\ \E args \in {"a", "b"} :
          calls' =
              Append([i \in DOMAIN calls |->
                         IF << i >> = pendingResolve
                         THEN [calls[i] EXCEPT !.promise = "undefined"]
                         ELSE calls[i]],
                     [args |-> args,
                      gap |-> IF calls = << >> THEN Wait
                              ELSE calls[Len(calls)].age,
                      age |-> 0,
                      promise |-> "pending"])
    /\ pendingResolve' = << Len(calls) + 1 >>
    /\ timeoutId' = setTimeout(timeoutId, Wait)
    /\ UNCHANGED << invocations, pendingChanges, builderProgram, builds,
                    phase, declarationFile, preProcessed, reProcessed,
                    options, bundlerFiles, graph, bundled, projectEntryPoints,
                    dtsEntryPoints, resolvedEntryPoints, hasHandledExit,
                    closeableClasses, listening, closeCalls, terminated,
                    cacheEnabled, cacheFile, cacheLoaded, loadedFrom,
                    restoreThrew, storeVars, buildVars >>

\* a tick passes while the timer is not due; the age of the last call is
\* counted up to the wait
Tick ==
    /\ calls # << >>
    /\ timeoutId # << 0 >>
    /\ timeoutId # << >> \/ calls[Len(calls)].age < Wait
    /\ timeoutId' = IF timeoutId = << >> THEN << >> ELSE << timeoutId[1] - 1 >>
    /\ calls' = [calls EXCEPT ![Len(calls)].age =
                    IF @ < Wait THEN @ + 1 ELSE @]
    /\ UNCHANGED << pendingResolve, invocations, pendingChanges,
                    builderProgram, builds, phase, declarationFile,
                    preProcessed, reProcessed, options, bundlerFiles, graph,
                    bundled, projectEntryPoints, dtsEntryPoints,
                    resolvedEntryPoints, hasHandledExit, closeableClasses,
                    listening, closeCalls, terminated, cacheEnabled,
                    cacheFile, cacheLoaded, loadedFrom, restoreThrew,
                    storeVars, buildVars >>

\* the timer callback: func.apply(this, args) with the arguments of the call
\* that set the timer; its promise resolves with the result, or rejects
\* when func throws
TimerCallback ==
    /\ timeoutId = << 0 >>
    /\ invocations' = Append(invocations,
                             [args |-> calls[Len(calls)].args,
                              after |-> Len(calls)])
    /\ \E outcome \in {"resolved", "rejected"} :
          calls' = [calls EXCEPT ![Len(calls)].promise = outcome]
    /\ pendingResolve' = << >>
    /\ timeoutId' = << >>
    /\ UNCHANGED << pendingChanges, builderProgram, builds, phase,
                    declarationFile, preProcessed, reProcessed, options,
                    bundlerFiles, graph, bundled, projectEntryPoints,
                    dtsEntryPoints, resolvedEntryPoints, hasHandledExit,
                    closeableClasses, listening, closeCalls, terminated,
                    cacheEnabled, cacheFile, cacheLoaded, loadedFrom,
                    restoreThrew, storeVars, buildVars >>

NextDebounce ==
    \/ Debounced
    \/ Tick
    \/ TimerCallback

SpecDebounce == InitDebounce /\ [][NextDebounce]_vars

----------------------------------------------------------------------------
(* A watching process with the incremental cache: tsbuild --watch builds the
   project once and then again after file changes. The project has the
   sources a.ts and b.ts; the text of a source stands for the declaration
   the compiler emits for it. A build is recorded with its position (pc),
   the store as restore left it (restored), the sources it compiled, the
   map it passed to cache.save (saved) and its two tasks. *)

\* the build() calls of a behaviour
MaxBuilds == 3

\* A build that awaits a settled cacheLoaded resumes in the microtask queue,
\* before any timer or I/O callback runs: the actions of timers, watcher
\* events and I/O completions wait until no build is at "initialize" with
\* the load settled.

SourcePaths == {"a.ts", "b.ts"}

\* createIncrementalProgram: reads the sources and the build info file
createIncrementalProgram(files) ==
    [sources |-> [source \in SourcePaths |-> files[source]],
     buildInfo |-> IF BuildInfoPath \in DOMAIN files
                   THEN files[BuildInfoPath]
                   ELSE EmptyMap,
     emitted |-> FALSE]

\* builderProgram.emit: the compiler writes the declarations of the sources
\* that differ from what the build info file records, once for a program
affected(program) ==
    IF program.emitted
    THEN {}
    ELSE { source \in DOMAIN program.sources :
              \/ source \notin DOMAIN program.buildInfo
              \/ program.buildInfo[source] # program.sources[source] }

InitWatch ==
    /\ cacheEnabled = TRUE
    /\ \E clearCache \in BOOLEAN :
          cfg = [noEmit |-> FALSE, force |-> FALSE, clean |-> FALSE,
                 declaration |-> TRUE, emitDeclarationOnly |-> FALSE,
                 clearCache |-> clearCache]
    /\ hasEmittedFiles = FALSE
    /\ declarationFiles = EmptyMap
    /\ \E built \in BOOLEAN, text \in {"r1", "r2"} :
          LET sources == [source \in SourcePaths |->
                             IF source = "a.ts" THEN text ELSE "r1"]
          IN  IF built
              THEN /\ cacheFile = Payload(dtsCacheVersion,
                                          [path \in DeclPaths |-> "p1"])
                   /\ disk = Put(sources, BuildInfoPath,
                                 [source \in SourcePaths |-> "r1"])
              ELSE /\ cacheFile = NoFile("absent")
                   /\ disk = sources
    /\ cacheLoaded = Pending
    /\ loadedFrom = NoFile("unread")
    /\ pc = "construct"
    /\ emitted = EmptyMap
    /\ diagnostics = 0
    /\ dts = NoTask
    /\ transpile = NoTask
    /\ settled = << >>
    /\ recorded = << >>
    /\ exitCode = 0
    /\ exited = NotExited
    /\ ending = "none"
    /\ cleaned = FALSE
    /\ restoreThrew = FALSE
    /\ writtenSinceInit = FALSE
    /\ lastOp = "none"
    /\ lastResult = "none"
    /\ lastWrite = NoWrite
    /\ phase = "none"
    /\ Unused({"processor", "bundler", "entryPoints", "processManager", "watch"})

\* build() up to its first suspension: typeCheck calls initialize, which
\* resets the flag and awaits cache.restore
build ==
    /\ hasEmittedFiles' = FALSE
    /\ builds' = Append(builds,
                        [pc |-> "initialize", restored |-> EmptyMap,
                         compiled |-> EmptyMap, saved |-> EmptyMap,
                         dts |-> NoTask, transpile |-> NoTask])

\* tsbuild.ts: await new TypeScriptProject(...).build(). The constructor
\* invalidates the cache when clearCache is set, creates the program, and
\* build() runs to its first suspension
NewTypeScriptProject ==
    /\ pc = "construct"
    /\ pc' = "built"
    /\ IF cfg.clearCache
       THEN /\ cacheFile' = NoFile("absent")
            /\ disk' = Without(disk, {BuildInfoPath})
       ELSE UNCHANGED << cacheFile, disk >>
    /\ builderProgram' = createIncrementalProgram(disk')
    /\ build
    /\ UNCHANGED << cacheEnabled, cfg, loadedFrom, diagnostics, dts,
                    transpile, settled, recorded, exitCode, exited, ending,
                    cleaned, restoreThrew, writtenSinceInit, lastOp,
                    lastResult, lastWrite, phase, declarationFile,
                    preProcessed, reProcessed, options, bundlerFiles, graph,
                    bundled, projectEntryPoints, dtsEntryPoints,
                    resolvedEntryPoints, hasHandledExit, closeableClasses,
                    listening, closeCalls, terminated, pendingResolve,
                    invocations, declarationFiles, cacheLoaded, emitted,
                    timeoutId, calls, pendingChanges >>

\* typeCheck resumes when restore has set the cached declarations: emit with
\* the store's fileWriter, then finalize up to cache.save
TypeCheck ==
    \E b \in DOMAIN builds :
        /\ builds[b].pc = "initialize"
        /\ cacheLoaded.status # "pending"
        /\ LET restored == restore(declarationFiles, cacheLoaded)
               sources == builderProgram.sources
               written == affected(builderProgram)
               declaration(source) == SubSeq(source, 1, Len(source) - 3) \o ".d.ts"
               stored ==
                   [path \in DOMAIN restored \cup { declaration(s) : s \in written } |->
                       IF \E s \in written : declaration(s) = path
                       THEN PreProcess(sources[CHOOSE s \in written :
                                                  declaration(s) = path])
                       ELSE restored[path]]
               flag == hasEmittedFiles \/ written # {}
           IN  /\ declarationFiles' = stored
               /\ hasEmittedFiles' = flag
               /\ disk' = IF written # {}
                          THEN Put(disk, BuildInfoPath, sources)
                          ELSE disk
               /\ builderProgram' = [builderProgram EXCEPT !.emitted = TRUE]
               /\ emitted' =
                      [path \in DOMAIN emitted \cup { declaration(s) : s \in written } |->
                          IF \E s \in written : declaration(s) = path
                          THEN stored[path]
                          ELSE emitted[path]]
               /\ builds' =
                      [builds EXCEPT ![b] =
                          [@ EXCEPT !.pc = IF flag THEN "saving" ELSE "done",
                                    !.restored = restored,
                                    !.compiled = sources,
                                    !.saved = IF flag THEN stored ELSE EmptyMap]]
        /\ UNCHANGED << cacheEnabled, cfg, loadedFrom, diagnostics, dts,
                        transpile, settled, recorded, exitCode, exited,
                        ending, cleaned, restoreThrew, writtenSinceInit,
                        lastOp, lastResult, lastWrite, phase, declarationFile,
                        preProcessed, reProcessed, options, bundlerFiles,
                        graph, bundled, projectEntryPoints, dtsEntryPoints,
                        resolvedEntryPoints, hasHandledExit, closeableClasses,
                        listening, closeCalls, terminated, pendingResolve,
                        invocations, cacheFile, cacheLoaded, pc, timeoutId,
                        calls, pendingChanges >>

\* cache.save has written the cache file: finalize returns true and build
\* starts the declaration task and the transpile task
CacheSaved ==
    \E b \in DOMAIN builds :
        /\ builds[b].pc = "saving"
        /\ \A other \in DOMAIN builds :
              builds[other].pc = "initialize" => cacheLoaded.status = "pending"
        /\ cacheFile' = writeCompressed(builds[b].saved)
        /\ builds' =
               [builds EXCEPT ![b] =
                   [@ EXCEPT !.pc = IF downstream(TRUE) THEN "tasks" ELSE "done",
                             !.dts = IF downstream(TRUE) /\ startsDeclarations
                                     THEN Running ELSE NoTask,
                             !.transpile = IF downstream(TRUE) /\ startsTranspile
                                           THEN Running ELSE NoTask]]
        /\ UNCHANGED << cacheEnabled, cfg, loadedFrom, diagnostics, dts,
                        transpile, settled, recorded, exitCode, exited,
                        ending, cleaned, restoreThrew, writtenSinceInit,
                        lastOp, lastResult, lastWrite, phase, declarationFile,
                        preProcessed, reProcessed, options, bundlerFiles,
                        graph, bundled, projectEntryPoints, dtsEntryPoints,
                        resolvedEntryPoints, hasHandledExit, closeableClasses,
                        listening, closeCalls, terminated, pendingResolve,
                        invocations, hasEmittedFiles, declarationFiles,
                        cacheLoaded, disk, pc, emitted, timeoutId, calls,
                        pendingChanges, builderProgram >>

\* processDeclarations or transpile settles; when both have settled build
\* handles the results and returns
TaskSettles ==
    \E b \in DOMAIN builds, task \in {"dts", "transpile"}, fulfilled \in BOOLEAN :
        /\ builds[b].pc = "tasks"
        /\ builds[b][task] = Running
        /\ \A other \in DOMAIN builds :
              builds[other].pc = "initialize" => cacheLoaded.status = "pending"
        /\ LET result == IF fulfilled THEN Fulfilled ELSE RejectedWith("Generic")
               other == IF task = "dts" THEN "transpile" ELSE "dts"
           IN  builds' =
                   [builds EXCEPT ![b] =
                       [@ EXCEPT ![task] = result,
                                 !.pc = IF builds[b][other] = Running
                                        THEN "tasks" ELSE "done"]]
        /\ disk' = IF ~fulfilled THEN disk
                   ELSE IF task = "dts"
                   THEN Put(disk, DtsOutPath, "bundle")
                   ELSE Put(disk, JsOutPath, "js")
        /\ UNCHANGED << cacheEnabled, cfg, loadedFrom, diagnostics, dts,
                        transpile, settled, recorded, exitCode, exited,
                        ending, cleaned, restoreThrew, writtenSinceInit,
                        lastOp, lastResult, lastWrite, phase, declarationFile,
                        preProcessed, reProcessed, options, bundlerFiles,
                        graph, bundled, projectEntryPoints, dtsEntryPoints,
                        resolvedEntryPoints, hasHandledExit, closeableClasses,
                        listening, closeCalls, terminated, pendingResolve,
                        invocations, hasEmittedFiles, declarationFiles,
                        cacheFile, cacheLoaded, pc, emitted, timeoutId, calls,
                        pendingChanges, builderProgram >>

\* a source is written, with another text or the same, and the watcher
\* that the first finished build started calls rebuild: the change is
\* pushed and the debounced triggerRebuild is called
FileChange ==
    /\ \E b \in DOMAIN builds : builds[b].pc = "done"
    /\ Len(calls) < MaxBuilds
    /\ \A other \in DOMAIN builds :
          builds[other].pc = "initialize" => cacheLoaded.status = "pending"
    /\ \E source \in SourcePaths, text \in {"r1", "r2"} :
          /\ disk' = [disk EXCEPT ![source] = text]
          /\ pendingChanges' = Append(pendingChanges, source)
    /\ calls' = Append(calls, [args |-> << >>])
    /\ timeoutId' = setTimeout(timeoutId, Wait)
    /\ UNCHANGED << cacheEnabled, cfg, loadedFrom, diagnostics, dts,
                    transpile, settled, recorded, exitCode, exited, ending,
                    cleaned, restoreThrew, writtenSinceInit, lastOp,
                    lastResult, lastWrite, phase, declarationFile,
                    preProcessed, reProcessed, options, bundlerFiles, graph,
                    bundled, projectEntryPoints, dtsEntryPoints,
                    resolvedEntryPoints, hasHandledExit, closeableClasses,
                    listening, closeCalls, terminated, pendingResolve,
                    invocations, hasEmittedFiles, declarationFiles, cacheFile,
                    cacheLoaded, pc, emitted, builderProgram, builds >>

\* the timer of the debounced triggerRebuild runs: the pending changes are
\* applied, the program is created again and build() is called
triggerRebuild ==
    /\ timeoutId # << >>
    /\ Len(builds) < MaxBuilds
    /\ \A other \in DOMAIN builds :
          builds[other].pc = "initialize" => cacheLoaded.status = "pending"
    /\ timeoutId' = << >>
    /\ IF pendingChanges = << >>
       THEN UNCHANGED << pendingChanges, builderProgram, builds, hasEmittedFiles >>
       ELSE /\ pendingChanges' = << >>
            /\ builderProgram' = createIncrementalProgram(disk)
            /\ build
    /\ UNCHANGED << cacheEnabled, cfg, loadedFrom, diagnostics, dts,
                    transpile, settled, recorded, exitCode, exited, ending,
                    cleaned, restoreThrew, writtenSinceInit, lastOp,
                    lastResult, lastWrite, phase, declarationFile,
                    preProcessed, reProcessed, options, bundlerFiles, graph,
                    bundled, projectEntryPoints, dtsEntryPoints,
                    resolvedEntryPoints, hasHandledExit, closeableClasses,
                    listening, closeCalls, terminated, pendingResolve,
                    invocations, declarationFiles, cacheFile, cacheLoaded,
                    disk, pc, emitted, calls >>

NextWatch ==
    \/ LoadCache
    \/ NewTypeScriptProject
    \/ TypeCheck
    \/ CacheSaved
    \/ TaskSettles
    \/ FileChange
    \/ triggerRebuild

SpecWatch == InitWatch /\ [][NextWatch]_vars

----------------------------------------------------------------------------
(* Properties *)

C3_TypeCheckAborts ==
    diagnostics > 0 =>
        /\ recorded = << "TypeCheck" >>
        /\ exitCode = ExitTypeCheck
        /\ pc \in {"done", "exited"}
        /\ dts.st = "none"
        /\ transpile.st = "none"
        /\ ~cleaned

C3_Witness ==
    /\ diagnostics > 0
    /\ pc = "done"
    /\ emitted # {}
    /\ cfg.declaration /\ ~cfg.noEmit /\ ~cfg.emitDeclarationOnly

\* C4: no task error is recorded, and the build does not finish, while a
\* started task is still running: a failed task never cuts the other short
C4_SettleBeforeHandle ==
    ((dts.st # "none" \/ transpile.st # "none")
         /\ (recorded # << >> \/ exitCode # 0 \/ pc = "done"))
      => (dts.st # "running" /\ transpile.st # "running")

C4_Witness ==
    /\ pc = "done"
    /\ dts.st = "rejected"
    /\ transpile.st = "fulfilled"
    /\ settled = << "dts", "transpile" >>
    /\ recorded = << dts.err >>

firstFailed == IF settled[1] = "dts" THEN dts.err ELSE transpile.err

\* C5: when both tasks fail, the exit code of the build is that of the task
\* that failed first
C5_FirstErrorWins ==
    (pc = "done" /\ dts.st = "rejected" /\ transpile.st = "rejected")
      => exitCode = (IF firstFailed \in BuildErrorKinds
                     THEN (CASE firstFailed = "Bundle" -> ExitBundle
                             [] firstFailed = "Configuration" -> ExitConfiguration
                             [] OTHER -> ExitTypeCheck)
                     ELSE ExitGeneric)

\* the exit code the error classes stand for; an error that is not a
\* BuildError is a generic failure
kindExit(kind) ==
    CASE kind = "Bundle" -> 2
      [] kind = "Configuration" -> 3
      [] OTHER -> 1

recordedExits == { kindExit(recorded[i]) : i \in 1..Len(recorded) }

unsupportedSyntaxRaised ==
    \/ lastWrite.path # "none" /\ ~lastWrite.returned
    \/ dts.err = "UnsupportedSyntax"

\* C7: an UnsupportedSyntax failure reaches the orchestrator as a Bundle error
\* and the run ends with exit code 2
C7_UnsupportedSyntaxIsBundle ==
    unsupportedSyntaxRaised =>
        /\ \A i \in 1..Len(recorded) : recorded[i] # "UnsupportedSyntax"
        /\ ending = "normal" => exited = ExitBundle

unusableCache(file) == file.state # "ok" \/ file.version # dtsCacheVersion

C9_AtomicSave == cacheFile.state # "partial"

writeEffect(throughToDisk) ==
    /\ hasEmittedFiles
    /\ IF throughToDisk
       THEN /\ disk = Put(lastWrite.disk, lastWrite.path, lastWrite.text)
            /\ declarationFiles = lastWrite.files
       ELSE /\ declarationFiles =
                   Put(lastWrite.files, lastWrite.path, PreProcess(lastWrite.text))
            /\ disk = lastWrite.disk

----------------------------------------------------------------------------
(* The bundled output *)

\* the names a code block of the bundle declares at top level
blockNames(i) == declaredNames(bundled.code.codeBlocks[i].code)

\* C11: in a bundled output no two top-level declarations that come from
\* different modules of the graph share a name, whatever names the modules
\* declare
C11_RenameUnique ==
    phase = "bundled" =>
        \A i, j \in DOMAIN bundled.code.codeBlocks :
            i # j => blockNames(i) \cap blockNames(j) = {}

\* the module at the path is part of the graph
inGraph(path) == \E i \in DOMAIN graph.sorted : graph.sorted[i].path = path

\* the pre-processed entry imports the name from "./types" and exports it
entryReExports(name) ==
    LET entry == bundlerFiles["/p/src/index.d.ts"]
    IN  /\ \E i \in DOMAIN entry :
              /\ entry[i].k = "import"
              /\ entry[i].spec = "./types"
              /\ name \in Range(entry[i].elements)
        /\ \E i \in DOMAIN entry :
              /\ entry[i].k = "export"
              /\ entry[i].spec = ""
              /\ name \in Range(entry[i].elements)

\* the code block of the module declares the name with the given kind
blockDeclares(path, kind, name) ==
    \E i \in DOMAIN bundled.code.codeBlocks :
        /\ bundled.code.codeBlocks[i].path = path
        /\ \E k \in DOMAIN bundled.code.codeBlocks[i].code :
              /\ bundled.code.codeBlocks[i].code[k].kind = kind
              /\ name \in Range(declared(bundled.code.codeBlocks[i].code[k]))

\* C12: when the entry imports User from the project module ./types and
\* User under the alias LibUser from the bundled node_modules package lib
\* (noExternal lists it, resolve is enabled) and exports both, the output
\* declares both interfaces, as User and User$1, and exports User and User$1
C12_CollisionExported ==
    ( /\ phase = "bundled"
      /\ options.resolve
      /\ options.noExternal = << "lib" >>
      /\ entryReExports("User")
      /\ \E i \in DOMAIN bundlerFiles["/p/src/index.d.ts"] :
            /\ bundlerFiles["/p/src/index.d.ts"][i].k = "export"
            /\ bundlerFiles["/p/src/index.d.ts"][i].elements = << "User", "LibUser" >>
      /\ inGraph("/p/src/types.d.ts")
      /\ inGraph("/p/node_modules/lib/index.d.ts") )
    => /\ blockDeclares("/p/src/types.d.ts", "interface", "User")
       /\ blockDeclares("/p/node_modules/lib/index.d.ts", "interface", "User$1")
       /\ {"User", "User$1"} \subseteq
             Range(bundled.code.valueExports) \cup Range(bundled.code.typeExports)

\* C13: when the entry imports an interface from the project module ./types
\* and exports it, the output declares the interface, has no import
\* statement and ends with `export type { Name };`: the name is exported as a
\* type and not as a value
C13_ReExportedInterfaceIsType ==
    ( /\ phase = "bundled"
      /\ inGraph("/p/src/types.d.ts")
      /\ entryReExports("User")
      /\ Len(bundlerFiles["/p/src/index.d.ts"]) = 2
      /\ "User" \notin collectIdentifiers(bundlerFiles["/p/src/types.d.ts"]).values
      /\ \A i \in DOMAIN bundlerFiles["/p/src/types.d.ts"] :
            bundlerFiles["/p/src/types.d.ts"][i].k # "import" )
    => /\ blockDeclares("/p/src/types.d.ts", "interface", "User")
       /\ bundled.code.imports = << >>
       /\ "User" \in Range(bundled.code.typeExports)
       /\ "User" \notin Range(bundled.code.valueExports)

\* the names the modules of the graph declare as types, and as values
graphIdentifiers ==
    [types |-> UNION { collectIdentifiers(bundlerFiles[graph.sorted[i].path]).types :
                          i \in DOMAIN graph.sorted },
     values |-> UNION { collectIdentifiers(bundlerFiles[graph.sorted[i].path]).values :
                           i \in DOMAIN graph.sorted }]

contributed ==
    LET project == { i \in DOMAIN graph.sorted :
                        indexOf(graph.sorted[i].path, nodeModules) = 0 }
        strip(i) == stripImportsExports(graph.sorted[i], graph.sorted,
                                        bundlerFiles, options)
    IN  [types |-> UNION { Range(strip(i).typeExports) : i \in project },
         values |-> UNION { Range(strip(i).valueExports) : i \in project }]

sortedNoDuplicates(names) ==
    \A i, j \in DOMAIN names : i < j => precedes(names[i], names[j])

\* C15 as stated: the output has at most one import statement for each pair
\* of kind (type-only or regular) and specifier, and the named members of that
\* statement are sorted and without duplicates
C15_OneImportPerSpecifier ==
    phase = "bundled" =>
        \A i, j \in DOMAIN bundled.code.imports :
            /\ (i # j) => << bundled.code.imports[i].typeOnly,
                             bundled.code.imports[i].spec >>
                          # << bundled.code.imports[j].typeOnly,
                               bundled.code.imports[j].spec >>
            /\ sortedNoDuplicates(bundled.code.imports[i].elements)

\* C15: the combined code has at most one named import statement for each
\* pair of kind and specifier as the modules wrote it, its members are
\* sorted in code unit order and without duplicates, and no import statement
\* of another form occurs twice
C15_OneNamedImportPerSpecifier ==
    phase = "bundled" =>
        \A i, j \in DOMAIN bundled.combined.imports :
            /\ (i # j) => bundled.combined.imports[i] # bundled.combined.imports[j]
            /\ (i # j /\ bundled.combined.imports[i].form = "named"
                      /\ bundled.combined.imports[j].form = "named")
                  => << bundled.combined.imports[i].typeOnly,
                        bundled.combined.imports[i].spec >>
                     # << bundled.combined.imports[j].typeOnly,
                          bundled.combined.imports[j].spec >>
            /\ sortedNoDuplicates(bundled.combined.imports[i].elements)

\* three modules import overlapping names from "ext", one of them also the
\* namespace
C15_Witness ==
    /\ phase = "bundled"
    /\ \E i, j \in DOMAIN bundled.combined.imports :
          /\ bundled.combined.imports[i].spec = "ext"
          /\ bundled.combined.imports[i].elements = << "a", "b", "c", "d" >>
          /\ bundled.combined.imports[j].spec = "ext"
          /\ bundled.combined.imports[j].form = "namespace"

\* C16: in the final output no import or export-from specifier ends with
\* .d.ts or .d.tsx
C16_NoDeclarationExtension ==
    phase = "bundled" =>
        \A i \in DOMAIN bundled.code.imports :
            /\ ~endsWith(bundled.code.imports[i].spec, ".d.ts")
            /\ ~endsWith(bundled.code.imports[i].spec, ".d.tsx")

\* C17: pre-processing is idempotent on the code: pre-processing the code that
\* pre-processing a well-formed declaration file produced yields the same code
C17_PreProcessIdempotent ==
    phase = "reProcessed" => reProcessed = preProcessed

C19_ResolveEntryPoints ==
    phase = "resolved" =>
        /\ \A name \in DOMAIN resolvedEntryPoints :
              /\ name \in DOMAIN projectEntryPoints
              /\ resolvedEntryPoints[name] = projectEntryPoints[name]
        /\ DOMAIN resolvedEntryPoints =
              IF dtsEntryPoints.given
              THEN (DOMAIN projectEntryPoints) \cap Range(dtsEntryPoints.names)
              ELSE IF "index" \in DOMAIN projectEntryPoints
                   THEN {"index"}
                   ELSE DOMAIN projectEntryPoints

\* a selection out of order that lists a name the project does not have
C19_Witness ==
    /\ phase = "resolved"
    /\ dtsEntryPoints.given
    /\ dtsEntryPoints.names = << "missing", "cli" >>
    /\ DOMAIN projectEntryPoints = {"index", "cli"}
    /\ DOMAIN resolvedEntryPoints = {"cli"}

\* C20: when the process has terminated through a normal exit or a SIGINT
\* every closeable that registered has been closed, and at no time has a
\* closeable been closed more than once
C20_ClosedOnce ==
    /\ \A closeable \in DOMAIN closeCalls : closeCalls[closeable] <= 1
    /\ terminated \in {"exit", "SIGINT"} =>
          \A closeable \in DOMAIN closeCalls : closeCalls[closeable] = 1

\* a SIGINT with several closeables registered
C20_Witness ==
    /\ terminated = "SIGINT"
    /\ hasHandledExit
    /\ Cardinality(DOMAIN closeCalls) >= 2
    /\ \A closeable \in DOMAIN closeCalls : closeCalls[closeable] = 1

declares(i, name) ==
    LET identifiers == collectIdentifiers(bundlerFiles[graph.sorted[i].path])
    IN  name \in identifiers.types \cup identifiers.values

\* the modules sorted before position i that declare the name
declaredBefore(i, name) == { j \in 1..(i - 1) : declares(j, name) }

modulePaths == { graph.modules[i].path : i \in DOMAIN graph.modules }

\* C28: in the graph built from an entry every path in a module's imports
\* is a key of modules, and every bundled specifier of a module resolves
\* to a key of modules, import cycles included
C28_ImportsAreModules ==
    phase = "bundled" =>
        \A i \in DOMAIN graph.modules :
            /\ Range(graph.modules[i].imports) \subseteq modulePaths
            /\ \A s \in DOMAIN graph.modules[i].bundledSpecifiers :
                  resolveModule(graph.modules[i].bundledSpecifiers[s],
                                graph.modules[i].path, bundlerFiles, options)
                      \in modulePaths

\* the module at path a imports the module at path b
importsOf(a) ==
    UNION { Range(graph.modules[i].imports) :
               i \in { j \in DOMAIN graph.modules : graph.modules[j].path = a } }

\* the paths reached from a set of paths over at most n imports
RECURSIVE reached(_, _)
reached(from, n) ==
    IF n = 0
    THEN from
    ELSE reached(from \cup UNION { importsOf(a) : a \in from }, n - 1)

\* types and utils import each other, and the package lib, loaded from disk
\* when the entry named it, is part of the graph
C28_Witness ==
    /\ phase = "bundled"
    /\ "/p/src/types.d.ts" \in importsOf("/p/src/utils.d.ts")
    /\ "/p/src/utils.d.ts" \in importsOf("/p/src/types.d.ts")
    /\ "/p/node_modules/lib/index.d.ts" \in importsOf("/p/src/index.d.ts")
    /\ "/p/node_modules/lib/index.d.ts" \in DOMAIN options.disk

\* the position of a path in the sorted order
position(path) ==
    CHOOSE i \in DOMAIN graph.sorted : graph.sorted[i].path = path

\* C29: when bundle() has returned, whatever imports what, the sorted order
\* holds every module reachable from the entry once, and a module stands
\* after each module it imports unless the imported module imports it back,
\* directly or through other modules
C29_SortedOrder ==
    phase = "bundled" =>
          /\ { graph.sorted[i].path : i \in DOMAIN graph.sorted } =
                reached({options.entryPoint}, Len(graph.modules))
          /\ \A i, j \in DOMAIN graph.sorted :
                graph.sorted[i].path = graph.sorted[j].path => i = j
          /\ \A i \in DOMAIN graph.sorted :
                \A imported \in Range(graph.sorted[i].imports) :
                    \/ position(imported) < i
                    \/ graph.sorted[i].path \in
                          reached(importsOf(imported), Len(graph.modules))

\* a cycle through the entry and a cycle between types and utils: utils is
\* sorted before types, which it imports
C29_Witness ==
    /\ phase = "bundled"
    /\ "/p/src/index.d.ts" \in importsOf("/p/src/utils.d.ts")
    /\ "/p/src/types.d.ts" \in importsOf("/p/src/utils.d.ts")
    /\ "/p/src/utils.d.ts" \in importsOf("/p/src/types.d.ts")
    /\ position("/p/src/utils.d.ts") < position("/p/src/types.d.ts")
    /\ Len(graph.sorted) >= 3

\* C30: processDeclarations leaves the store's map as it is: neither
\* writeFiles nor a bundling run, which reads the map through
\* getDeclarationFiles and loads the declarations of a package from disk,
\* changes a key or a value of it
C30_StoreFrame ==
    [][declarationFiles' = declarationFiles]_vars

\* the bundle holds the package lib, which the bundler loaded from disk into
\* its own map: the store does not hold it
C30_Witness ==
    /\ phase = "bundled"
    /\ inGraph("/p/node_modules/lib/index.d.ts")
    /\ "/p/node_modules/lib/index.d.ts" \in DOMAIN bundlerFiles
    /\ "/p/node_modules/lib/index.d.ts" \notin DOMAIN declarationFiles
    /\ "/p/src/index.d.ts" \in DOMAIN declarationFiles

\* the call is the last of its burst: the call after it, if there is one,
\* arrived no less than the wait after it
lastOfBurst(i) == i = Len(calls) \/ calls[i + 1].gap >= Wait

\* the invocations of the underlying method made after call i and before
\* the call after it
invocationsAfter(i) == { k \in DOMAIN invocations : invocations[k].after = i }

inProgress == { b \in DOMAIN builds : builds[b].pc # "done" }

\* C23: with the cache enabled, when a build of a watching process is about
\* to bundle and no other build is in progress, the store holds for every
\* path the declaration that the builds of the process emitted last
C23_StoreHoldsLatest ==
    \A b \in DOMAIN builds :
        ( /\ cacheEnabled
          /\ inProgress = {b}
          /\ builds[b].pc = "tasks"
          /\ builds[b].dts = Running )
        => \A path \in DOMAIN emitted : declarationFiles[path] = emitted[path]

\* C24: in a watching process at most one build is in progress at any time
C24_OneBuildAtATime ==
    Cardinality(inProgress) <= 1

\* C25: when a build has saved the cache and one of its tasks has failed,
\* the next build, of the same sources and started after it has returned,
\* starts the tasks again
C25_FailedTasksRunAgain ==
    \A b \in DOMAIN builds :
        ( /\ b > 1
          /\ builds[b].pc = "done"
          /\ builds[b - 1].pc = "done"
          /\ builds[b - 1].saved # EmptyMap
          /\ isRejected(builds[b - 1].dts) \/ isRejected(builds[b - 1].transpile)
          /\ builds[b].compiled = builds[b - 1].compiled
          /\ inProgress = {} )
        => builds[b].dts # NoTask /\ builds[b].transpile # NoTask

\* C26: in a process started with clearCache the first initialize() puts
\* no declaration of the cache file into the store, whenever the load that
\* the cache started when it was constructed reads the file
C26_ClearCacheRestoresNothing ==
    ( /\ cfg.clearCache
      /\ builds # << >>
      /\ builds[1].pc # "initialize" )
    => builds[1].restored = EmptyMap

====
